---------------------------- MODULE Spec2Model ----------------------------
(***************************************************************************)
(* A model of the filesystem MCP server: the tool dispatcher and its 16    *)
(* operations over a small file tree, the watcher registry, the TTL cache  *)
(* in front of the resource router, and the process-level shutdown         *)
(* handlers.  A request handler is one atomic action (requests are served  *)
(* one at a time); the outcome of an OS or library call that the code      *)
(* cannot control (an I/O error, a rejected close) is chosen by \E.        *)
(***************************************************************************)
EXTENDS Integers, Sequences, FiniteSets, TLC

VARIABLES
    fs,        \* the file tree: path -> node
    watchers,  \* AdvancedOperations.watchers: a Map, in insertion order
    handles,   \* every chokidar watcher created so far, by creation order
    cache,     \* FileSystemMCPServer.cache: key -> entry
    now,       \* Date.now(), in milliseconds
    request,   \* the request handled last
    result,    \* the response to it
    oscalls,   \* the fs calls the last handler issued, in order
    sent,      \* resource URI -> the payload served last for it
    proc,      \* the process: running, or exited with a code
    served,    \* the number of requests handled so far
    inflight   \* the calls suspended at an await: operation, arguments, position, locals

vars == <<fs, watchers, handles, cache, now, request, result, oscalls, sent, proc, served, inflight>>

----------------------------------------------------------------------------
(* Bounds of the model *)

\* requests handled in one behaviour
MaxRequests == 4
\* watchers created in one behaviour
MaxHandles == 2
\* events delivered in one behaviour
MaxEvents == 11
\* resource URIs fetched in one behaviour
MaxCacheKeys == 2
\* characters in one file
MaxContentLen == 2
\* requests one behaviour makes of the operations started on any tree
MaxFileRequests == 2
\* requests one behaviour makes of the operations that only read the tree
MaxDirRequests == 1
\* characters in the shorter and in the longer of two texts
MaxShortText == 2
MaxLongText == 4

----------------------------------------------------------------------------
(* The file tree *)

Root == "/"
\* the paths requests name, the paths an extraction into /x creates, and a
\* hidden directory with one entry
ToolPaths == {"/d", "/d/f", "/d/g"}
Paths == ToolPaths \cup {"/x", "/x/d", "/x/d/f", "/x/f", "/x/.h", "/x/.h/f"}

Parent(p) ==
    CASE p \in {"/d", "/x"} -> Root
      [] p \in {"/d/f", "/d/g"} -> "/d"
      [] p \in {"/x/d", "/x/f", "/x/.h"} -> "/x"
      [] p = "/x/d/f" -> "/x/d"
      [] p = "/x/.h/f" -> "/x/.h"

\* a second spelling of a path names the same file by another string
Canon(s) == IF s = "/d/./f" THEN "/d/f" ELSE s

Contents == {<<>>, <<"x">>}

Absent == [kind |-> "absent"]
Dir == [kind |-> "dir"]
File(c) == [kind |-> "file", content |-> c]
\* a zip container: a file whose bytes hold named entries
Zip(entries) == [kind |-> "file", content |-> <<"P", "K">>, zip |-> entries]
IsZip(n) == "zip" \in DOMAIN n

Node(f, p) == IF p = Root THEN Dir ELSE f[Canon(p)]
Exists(f, p) == Node(f, p).kind # "absent"
IsDir(f, p) == Node(f, p).kind = "dir"
IsFile(f, p) == Node(f, p).kind = "file"
Children(f, p) == {q \in Paths : Parent(q) = Canon(p) /\ Exists(f, q)}

RECURSIVE Under(_, _)
Under(q, p) == q # Root /\ (Parent(q) = p \/ Under(Parent(q), p))

Size(f, p) == IF IsFile(f, p) THEN Len(Node(f, p).content) ELSE 0


----------------------------------------------------------------------------
(* Result envelopes (FileOperationResult) and requests *)

Missing == "undefined"
NoError == "none"
\* an optional number or list: absent, or present with a value
None == <<>>
Some(v) == <<v>>
NoData == [none |-> TRUE]
NoResponse == [kind |-> "none"]

Ok(path, data) ==
    [kind |-> "envelope", success |-> TRUE, path |-> path, data |-> data, error |-> NoError]
OkNoData(path) ==
    [kind |-> "envelope", success |-> TRUE, path |-> path, data |-> NoData, error |-> NoError]
\* a failure that leaves error unset
FailNoError(path, err) ==
    [kind |-> "envelope", success |-> FALSE, path |-> path, data |-> NoData, error |-> NoError]
Fail(path, err) ==
    [kind |-> "envelope", success |-> FALSE, path |-> path, data |-> NoData, error |-> err]

\* what an operation hands back: the tree it leaves, its envelope, its fs calls
Out(f, res, calls) == [fs |-> f, res |-> res, calls |-> calls, uncaught |-> FALSE]

\* the outcome of the OS call at the heart of an operation
Faults == {"none", "io"}

Name(p) ==
    CASE p = "/d" -> "d"
      [] p = "/d/f" -> "f"
      [] p = "/d/g" -> "g"
      [] p = "/x" -> "x"
      [] p = "/x/d" -> "d"
      [] p \in {"/x/d/f", "/x/f"} -> "f"
      [] p = "/x/.h" -> ".h"
      [] p = "/x/.h/f" -> "f"
      [] OTHER -> p

HiddenNames == {".h"}

TypeOf(f, p) == IF IsDir(f, p) THEN "directory" ELSE "file"

statsToFileInfo(f, p) ==
    [name |-> Name(Canon(p)), path |-> p, type |-> TypeOf(f, p), size |-> Size(f, p),
     isDirectory |-> IsDir(f, p), isFile |-> IsFile(f, p)]

\* fs.mkdir(p, {recursive: true})
RECURSIVE MkdirP(_, _)
MkdirP(f, p) ==
    IF p = Root THEN [ok |-> TRUE, fs |-> f]
    ELSE LET up == MkdirP(f, Parent(p)) IN
         IF ~up.ok THEN up
         ELSE IF IsDir(up.fs, p) THEN up
         ELSE IF Exists(up.fs, p) THEN [ok |-> FALSE, fs |-> up.fs]
         ELSE [ok |-> TRUE, fs |-> [up.fs EXCEPT ![p] = Dir]]

\* fs.rmdir(p, {recursive: true}) and fs.unlink(p)
Remove(f, p) == [q \in Paths |-> IF q = p \/ Under(q, p) THEN Absent ELSE f[q]]

----------------------------------------------------------------------------
(* FileOperations *)

Min(a, b) == IF a < b THEN a ELSE b

\* buffer.slice(start, end) of a whole-file read
Slice(c, offset, limit) ==
    LET start == IF offset = None THEN 0 ELSE offset[1]
        end == IF limit = None THEN Len(c) ELSE start + limit[1]
    IN  SubSeq(c, start + 1, Min(end, Len(c)))

\* the encodings of the schema that the model tells apart
Encodings == {"utf8", "hex"}

\* a JavaScript string, and a Buffer as the response carries it
Text(chars) == [text |-> chars]
BufferOf(bytes) == [type |-> "Buffer", data |-> bytes]

\* a char that is half of a surrogate pair, and the replacement character
LoneSurrogate == "U+D800"
Replacement == "U+FFFD"

\* Buffer.from(chars, 'utf8'): an ASCII char is its byte, an unpaired
\* surrogate is written as the three bytes of U+FFFD
RECURSIVE Encode(_)
Encode(chars) ==
    IF chars = <<>> THEN <<>>
    ELSE (IF Head(chars) \in {LoneSurrogate, Replacement} THEN <<"EF", "BF", "BD">>
          ELSE <<Head(chars)>>) \o Encode(Tail(chars))

\* the bytes the next char of a utf8 decoder takes: a whole U+FFFD, or the
\* longest prefix of one, or a single byte
Taken(bytes) ==
    IF Len(bytes) >= 3 /\ SubSeq(bytes, 1, 3) = <<"EF", "BF", "BD">> THEN 3
    ELSE IF Len(bytes) >= 2 /\ SubSeq(bytes, 1, 2) = <<"EF", "BF">> THEN 2
    ELSE 1

\* buffer.toString('utf8'): an ill-formed sequence decodes to U+FFFD
RECURSIVE Decode(_)
Decode(bytes) ==
    IF bytes = <<>> THEN <<>>
    ELSE <<IF Head(bytes) \in {"EF", "BF", "BD"} THEN Replacement ELSE Head(bytes)>>
         \o Decode(SubSeq(bytes, Taken(bytes) + 1, Len(bytes)))

\* the two hex digits of one byte
HexDigits(b) ==
    CASE b = "x" -> <<"7", "8">>
      [] b = "y" -> <<"7", "9">>
      [] b = "EF" -> <<"e", "f">>
      [] b = "BF" -> <<"b", "f">>
      [] b = "BD" -> <<"b", "d">>
      [] b = "P" -> <<"5", "0">>
      [] b = "K" -> <<"4", "b">>

RECURSIVE Hex(_)
Hex(bytes) == IF bytes = <<>> THEN <<>> ELSE HexDigits(Head(bytes)) \o Hex(Tail(bytes))

\* buffer.toString(encoding)
Render(bytes, encoding) == Text(IF encoding = "hex" THEN Hex(bytes) ELSE Decode(bytes))

readFile(f, a, fault) ==
    IF ~Exists(f, a.path) THEN Out(f, Fail(a.path, "ENOENT"), <<"access">>)
    ELSE IF IsDir(f, a.path) THEN Out(f, Fail(a.path, "EISDIR"), <<"access", "readFile">>)
    ELSE IF fault = "io" THEN Out(f, Fail(a.path, "EIO"), <<"access", "readFile">>)
    ELSE LET whole == Node(f, a.path).content
             slice == Slice(whole, a.offset, a.limit)
             content == IF a.offset # None \/ a.limit # None
                        THEN IF a.encoding = "utf8" THEN Render(slice, a.encoding)
                             ELSE BufferOf(slice)
                        ELSE Render(whole, a.encoding)
             size == IF a.offset # None \/ a.limit # None THEN Len(slice) ELSE Len(whole)
         IN  Out(f, Ok(a.path, [content |-> content, encoding |-> a.encoding, size |-> size]),
                 <<"access", "readFile">>)

\* writeFile that opens with flag w whatever append is
writeFileTruncating(f, a, fault) ==
    LET made == IF a.createDirs THEN MkdirP(f, Parent(a.path)) ELSE [ok |-> TRUE, fs |-> f]
        pre == IF a.createDirs THEN <<"mkdir">> ELSE <<>>
        old == IF IsFile(made.fs, a.path) THEN Node(made.fs, a.path).content ELSE <<>>
        new == Encode(a.content)
    IN  IF ~made.ok THEN Out(made.fs, Fail(a.path, "EEXIST"), pre)
        ELSE IF ~Exists(made.fs, Parent(a.path))
             THEN Out(made.fs, Fail(a.path, "ENOENT"), pre \o <<"writeFile">>)
        ELSE IF ~IsDir(made.fs, Parent(a.path))
             THEN Out(made.fs, Fail(a.path, "ENOTDIR"), pre \o <<"writeFile">>)
        ELSE IF IsDir(made.fs, a.path)
             THEN Out(made.fs, Fail(a.path, "EISDIR"), pre \o <<"writeFile">>)
        ELSE IF fault = "io" THEN Out(made.fs, Fail(a.path, "EIO"), pre \o <<"writeFile">>)
        ELSE Out([made.fs EXCEPT ![a.path] = File(new)],
                 Ok(a.path, [size |-> Len(Encode(a.content)), encoding |-> "utf8",
                             created |-> ~a.append]),
                 pre \o <<"writeFile">>)

writeFile(f, a, fault) ==
    LET made == IF a.createDirs THEN MkdirP(f, Parent(a.path)) ELSE [ok |-> TRUE, fs |-> f]
        pre == IF a.createDirs THEN <<"mkdir">> ELSE <<>>
        old == IF IsFile(made.fs, a.path) THEN Node(made.fs, a.path).content ELSE <<>>
        new == IF a.append THEN old \o Encode(a.content) ELSE Encode(a.content)
    IN  IF ~made.ok THEN Out(made.fs, Fail(a.path, "EEXIST"), pre)
        ELSE IF ~Exists(made.fs, Parent(a.path))
             THEN Out(made.fs, Fail(a.path, "ENOENT"), pre \o <<"writeFile">>)
        ELSE IF ~IsDir(made.fs, Parent(a.path))
             THEN Out(made.fs, Fail(a.path, "ENOTDIR"), pre \o <<"writeFile">>)
        ELSE IF IsDir(made.fs, a.path)
             THEN Out(made.fs, Fail(a.path, "EISDIR"), pre \o <<"writeFile">>)
        ELSE IF fault = "io" THEN Out(made.fs, Fail(a.path, "EIO"), pre \o <<"writeFile">>)
        ELSE Out([made.fs EXCEPT ![a.path] = File(new)],
                 Ok(a.path, [size |-> Len(Encode(a.content)), encoding |-> "utf8",
                             created |-> ~a.append]),
                 pre \o <<"writeFile">>)

\* copyFile without the check of the destination
copyFileClobber(f, a, fault) ==
    IF ~Exists(f, a.source) THEN Out(f, Fail(a.destination, "ENOENT"), <<"access">>)
    ELSE LET made == MkdirP(f, Parent(a.destination))
             g == made.fs
             sofar == <<"access", "access", "mkdir">>
         IN  IF ~made.ok THEN Out(g, Fail(a.destination, "EEXIST"), sofar)
             ELSE IF IsDir(g, a.source) \/ IsDir(g, a.destination)
                  THEN Out(g, Fail(a.destination, "EISDIR"), sofar \o <<"copyFile">>)
             ELSE LET h == [g EXCEPT ![a.destination] = g[a.source]] IN
                  Out(h, Ok(a.destination, [source |-> a.source, destination |-> a.destination,
                                            size |-> Size(h, a.destination)]),
                      sofar \o <<"copyFile", "stat", "utimes", "stat">>)

copyFile(f, a, fault) ==
    IF ~Exists(f, a.source) THEN Out(f, Fail(a.destination, "ENOENT"), <<"access">>)
    ELSE IF Exists(f, a.destination) /\ ~a.overwrite
         THEN Out(f, Fail(a.destination, "File exists"), <<"access", "access">>)
    ELSE LET made == MkdirP(f, Parent(a.destination))
             g == made.fs
             sofar == <<"access", "access", "mkdir">>
         IN  IF ~made.ok THEN Out(g, Fail(a.destination, "EEXIST"), sofar)
             ELSE IF IsDir(g, a.source) \/ IsDir(g, a.destination)
                  THEN Out(g, Fail(a.destination, "EISDIR"), sofar \o <<"copyFile">>)
             ELSE IF fault = "io" THEN Out(g, Fail(a.destination, "EIO"), sofar \o <<"copyFile">>)
             ELSE LET h == [g EXCEPT ![a.destination] = g[a.source]] IN
                  Out(h, Ok(a.destination, [source |-> a.source, destination |-> a.destination,
                                            size |-> Size(h, a.destination)]),
                      sofar \o <<"copyFile", "stat", "utimes", "stat">>)

\* a copy that is refused when the destination exists at the time of the copy
\* (COPYFILE_EXCL)
copyCheckedExclusive(f, a, fault) ==
    IF Exists(f, a.destination)
    THEN Out(f, Fail(a.destination, "File exists"), <<"mkdir", "copyFile">>)
    ELSE copyFileClobber(f, a, fault)

\* copyFile from the await after its check of the destination on: mkdir of
\* the parent, fs.copyFile, the timestamps and the size
copyChecked(f, a, fault) ==
    LET made == MkdirP(f, Parent(a.destination))
        g == made.fs
    IN  IF ~made.ok THEN Out(g, Fail(a.destination, "EEXIST"), <<"mkdir">>)
        ELSE IF ~Exists(g, a.source)
             THEN Out(g, Fail(a.destination, "ENOENT"), <<"mkdir", "copyFile">>)
        ELSE IF IsDir(g, a.source) \/ IsDir(g, a.destination)
             THEN Out(g, Fail(a.destination, "EISDIR"), <<"mkdir", "copyFile">>)
        ELSE IF fault = "io" THEN Out(g, Fail(a.destination, "EIO"), <<"mkdir", "copyFile">>)
        ELSE LET h == [g EXCEPT ![a.destination] = g[a.source]] IN
             Out(h, Ok(a.destination, [source |-> a.source, destination |-> a.destination,
                                       size |-> Size(h, a.destination)]),
                 <<"mkdir", "copyFile", "stat", "utimes", "stat">>)

\* fs.rename(s, d): the error it raises, or "none"
RenameError(g, s, d) ==
    IF s = d THEN "none"
    ELSE IF Under(d, s) THEN "EINVAL"
    ELSE IF IsDir(g, d) /\ ~IsDir(g, s) THEN "EISDIR"
    ELSE IF IsDir(g, d) /\ Children(g, d) # {} THEN "ENOTEMPTY"
    ELSE IF Exists(g, d) /\ ~IsDir(g, d) /\ IsDir(g, s) THEN "ENOTDIR"
    ELSE "none"

\* a rename that leaves the source behind
RenameKeep(g, s, d) == [g EXCEPT ![d] = g[s]]

\* a directory that can be renamed holds nothing in this tree, so one node moves
Rename(g, s, d) == IF s = d THEN g ELSE [g EXCEPT ![d] = g[s], ![s] = Absent]

moveFile(f, a, fault) ==
    IF ~Exists(f, a.source) THEN Out(f, Fail(a.destination, "ENOENT"), <<"access">>)
    ELSE IF Exists(f, a.destination) /\ ~a.overwrite
         THEN Out(f, Fail(a.destination, "File exists"), <<"access", "access">>)
    ELSE LET made == MkdirP(f, Parent(a.destination))
             g == made.fs
             sofar == <<"access", "access", "mkdir">>
             err == RenameError(g, a.source, a.destination)
         IN  IF ~made.ok THEN Out(g, Fail(a.destination, "EEXIST"), sofar)
             ELSE IF err # "none" THEN Out(g, Fail(a.destination, err), sofar \o <<"rename">>)
             ELSE IF fault = "io" THEN Out(g, Fail(a.destination, "EXDEV"), sofar \o <<"rename">>)
             ELSE LET h == Rename(g, a.source, a.destination) IN
                  Out(h, Ok(a.destination, [source |-> a.source, destination |-> a.destination,
                                            size |-> Size(h, a.destination)]),
                      sofar \o <<"rename", "stat">>)

\* moveFile from the await after its check of the destination on: mkdir of
\* the parent, fs.rename and the size
moveChecked(f, a, fault) ==
    LET made == MkdirP(f, Parent(a.destination))
        g == made.fs
    IN  IF ~made.ok THEN Out(g, Fail(a.destination, "EEXIST"), <<"mkdir">>)
        ELSE IF ~Exists(g, a.source)
             THEN Out(g, Fail(a.destination, "ENOENT"), <<"mkdir", "rename">>)
        ELSE IF RenameError(g, a.source, a.destination) # "none"
             THEN Out(g, Fail(a.destination, RenameError(g, a.source, a.destination)),
                      <<"mkdir", "rename">>)
        ELSE IF fault = "io" THEN Out(g, Fail(a.destination, "EXDEV"), <<"mkdir", "rename">>)
        ELSE LET h == Rename(g, a.source, a.destination) IN
             Out(h, Ok(a.destination, [source |-> a.source, destination |-> a.destination,
                                       size |-> Size(h, a.destination)]),
                 <<"mkdir", "rename", "stat">>)

\* deleteFile with a guard that force overrides
deleteFileForced(f, a, fault) ==
    IF ~Exists(f, a.path)
    THEN IF ~a.force THEN Out(f, Fail(a.path, "Path not found"), <<"access">>)
         ELSE Out(f, OkNoData(a.path), <<"access">>)
    ELSE IF IsDir(f, a.path)
    THEN IF ~a.recursive /\ ~a.force
         THEN Out(f, Fail(a.path, "Directory requires recursive deletion"), <<"access", "stat">>)
         ELSE Out(Remove(f, a.path), Ok(a.path, [type |-> "directory", size |-> 0]),
                  <<"access", "stat", "rmdir">>)
    ELSE Out(Remove(f, a.path), Ok(a.path, [type |-> "file", size |-> Size(f, a.path)]),
             <<"access", "stat", "unlink">>)

deleteFile(f, a, fault) ==
    IF ~Exists(f, a.path)
    THEN IF ~a.force THEN Out(f, Fail(a.path, "Path not found"), <<"access">>)
         ELSE Out(f, OkNoData(a.path), <<"access">>)
    ELSE IF IsDir(f, a.path)
    THEN IF ~a.recursive
         THEN Out(f, Fail(a.path, "Directory requires recursive deletion"), <<"access", "stat">>)
         ELSE IF fault = "io" THEN Out(f, Fail(a.path, "EIO"), <<"access", "stat", "rmdir">>)
         ELSE Out(Remove(f, a.path), Ok(a.path, [type |-> "directory", size |-> 0]),
                  <<"access", "stat", "rmdir">>)
    ELSE IF fault = "io" THEN Out(f, Fail(a.path, "EIO"), <<"access", "stat", "unlink">>)
    ELSE Out(Remove(f, a.path), Ok(a.path, [type |-> "file", size |-> Size(f, a.path)]),
             <<"access", "stat", "unlink">>)

getFileInfo(f, a, fault) ==
    IF ~Exists(f, a.path) THEN Out(f, Fail(a.path, "ENOENT"), <<"stat">>)
    ELSE IF fault = "io" THEN Out(f, Fail(a.path, "EIO"), <<"stat">>)
    ELSE Out(f, Ok(a.path, statsToFileInfo(f, a.path)), <<"stat">>)


----------------------------------------------------------------------------
(* DirectoryOperations *)

createDirectory(f, a, fault) ==
    IF a.recursive
    THEN LET made == MkdirP(f, a.path) IN
         IF ~made.ok THEN Out(made.fs, Fail(a.path, "EEXIST"), <<"mkdir">>)
         ELSE IF fault = "io" THEN Out(f, Fail(a.path, "EACCES"), <<"mkdir">>)
         ELSE Out(made.fs, Ok(a.path, [created |-> TRUE, recursive |-> TRUE]), <<"mkdir">>)
    ELSE IF Exists(f, a.path) THEN Out(f, Fail(a.path, "EEXIST"), <<"mkdir">>)
    ELSE IF ~Exists(f, Parent(a.path)) THEN Out(f, Fail(a.path, "ENOENT"), <<"mkdir">>)
    ELSE IF ~IsDir(f, Parent(a.path)) THEN Out(f, Fail(a.path, "ENOTDIR"), <<"mkdir">>)
    ELSE IF fault = "io" THEN Out(f, Fail(a.path, "EACCES"), <<"mkdir">>)
    ELSE Out([f EXCEPT ![a.path] = Dir], Ok(a.path, [created |-> TRUE, recursive |-> FALSE]),
             <<"mkdir">>)

Hidden(p) == Name(p) \in HiddenNames

\* traverseDirectory that does not descend into a directory the filter drops
RECURSIVE traverseDirectoryPruned(_, _, _, _)
traverseDirectoryPruned(f, dirPath, o, currentDepth) ==
    IF currentDepth >= o.maxDepth \/ ~IsDir(f, dirPath) THEN {}
    ELSE UNION { IF o.fileTypes = None \/ TypeOf(f, q) \in o.fileTypes[1]
                 THEN {statsToFileInfo(f, q)}
                      \cup
                      (IF o.recursive /\ IsDir(f, q) /\ currentDepth < o.maxDepth - 1
                       THEN traverseDirectoryPruned(f, q, o, currentDepth + 1) ELSE {})
                 ELSE {}
               : q \in {c \in Children(f, dirPath) : o.includeHidden \/ ~Hidden(c)} }

\* the items traverseDirectory pushes, from dirPath at currentDepth
RECURSIVE traverseDirectory(_, _, _, _)
traverseDirectory(f, dirPath, o, currentDepth) ==
    IF currentDepth >= o.maxDepth \/ ~IsDir(f, dirPath) THEN {}
    ELSE UNION { (IF o.fileTypes = None \/ TypeOf(f, q) \in o.fileTypes[1]
                  THEN {statsToFileInfo(f, q)} ELSE {})
                 \cup
                 (IF o.recursive /\ IsDir(f, q) /\ currentDepth < o.maxDepth - 1
                  THEN traverseDirectory(f, q, o, currentDepth + 1) ELSE {})
               : q \in {c \in Children(f, dirPath) : o.includeHidden \/ ~Hidden(c)} }

\* maxDepth || (recursive ? Infinity : 1); the tree is shallower than its path count
EffectiveDepth(a) ==
    IF a.maxDepth # None THEN a.maxDepth[1]
    ELSE IF a.recursive THEN Cardinality(Paths) + 1 ELSE 1

listDirectory(f, a, fault) ==
    IF ~Exists(f, a.path) THEN Out(f, Fail(a.path, "ENOENT"), <<"access">>)
    ELSE IF fault = "io" THEN Out(f, Fail(a.path, "EACCES"), <<"access">>)
    ELSE LET items == traverseDirectory(f, a.path,
                          [recursive |-> a.recursive, includeHidden |-> a.includeHidden,
                           maxDepth |-> EffectiveDepth(a), fileTypes |-> a.fileTypes], 0)
         IN  Out(f, Ok(a.path, [items |-> items, count |-> Cardinality(items),
                                recursive |-> a.recursive, includeHidden |-> a.includeHidden]),
                 <<"access", "readdir">>)

\* the number of names from the directory p down to the entry q beneath it
RECURSIVE DepthBelow(_, _)
DepthBelow(q, p) == IF Parent(q) = p THEN 1 ELSE 1 + DepthBelow(Parent(q), p)

\* a name on the way from the directory p down to q starts with a dot
RECURSIVE HiddenBelow(_, _)
HiddenBelow(q, p) == Hidden(q) \/ (Parent(q) # p /\ HiddenBelow(Parent(q), p))

\* the fewest names a match of the pattern has: "**" stands for any number of
\* directories, none included, and every further "*" for exactly one name
Star == "*"
Globstar == "**/*"
LeastDepth(pattern) ==
    CASE pattern = "**/*/*" -> 2
      [] pattern = "**/*/*/*" -> 3
      [] OTHER -> 1

\* glob(pattern, {cwd: dir, dot}): "*" is one level, "**/*" every level, and
\* "**/*" followed by n times "/*" every level from n + 1 on
Glob(f, pattern, dir, dot) ==
    {q \in Paths : /\ Exists(f, q) /\ Under(q, dir)
                   /\ IF pattern = Star THEN DepthBelow(q, dir) = 1
                      ELSE DepthBelow(q, dir) >= LeastDepth(pattern)
                   /\ dot \/ ~HiddenBelow(q, dir)}

findFiles(f, a, fault) ==
    IF fault = "io" THEN Out(f, Fail(a.directory, "glob failed"), <<"glob">>)
    ELSE LET nodir == a.fileTypes # None /\ "directory" \notin a.fileTypes[1]
             matches == {q \in Glob(f, a.pattern, a.directory, a.includeHidden) :
                            ~(nodir /\ IsDir(f, q))}
             infos == {statsToFileInfo(f, q) : q \in matches}
             kept == IF a.fileTypes = None THEN infos
                     ELSE {i \in infos : i.type \in a.fileTypes[1]}
         IN  Out(f, Ok(a.directory, [files |-> kept, count |-> Cardinality(kept),
                                     pattern |-> a.pattern, directory |-> a.directory]),
                 <<"glob", "stat">>)

\* calculateDirectorySize adds to the stats object it is handed
RECURSIVE calculateDirectorySize(_, _, _)
calculateDirectorySize(f, dirPath, stats) ==
    IF ~IsDir(f, dirPath) THEN stats
    ELSE LET kids == Children(f, dirPath)
             RECURSIVE Walk(_, _)
             Walk(rest, st) ==
                 IF rest = {} THEN st
                 ELSE LET q == CHOOSE c \in rest : TRUE IN
                      Walk(rest \ {q},
                           IF IsDir(f, q)
                           THEN calculateDirectorySize(f, q,
                                    [st EXCEPT !.dirCount = st.dirCount + 1])
                           ELSE [st EXCEPT !.totalSize = st.totalSize + Size(f, q),
                                           !.fileCount = st.fileCount + 1])
         IN  Walk(kids, stats)

\* the object literal copies the three numbers: the walk's sums never reach
\* the locals getDirectorySize returns
getDirectorySize(f, path) ==
    LET totalSize == 0
        fileCount == 0
        dirCount == 0
        walked == IF path = Missing THEN [totalSize |-> 0, fileCount |-> 0, dirCount |-> 0]
                  ELSE calculateDirectorySize(f, path,
                           [totalSize |-> totalSize, fileCount |-> fileCount,
                            dirCount |-> dirCount])
    IN  Out(f, Ok(path, [totalSize |-> totalSize, fileCount |-> fileCount,
                         dirCount |-> dirCount]),
            IF path = Missing THEN <<>> ELSE <<"readdir">>)


----------------------------------------------------------------------------
(* AdvancedOperations: search, compare, archive *)

\* a pattern new RegExp() rejects
BadPattern == "("

\* the first position of a line feed in chars, or 0
FirstLF(chars) ==
    IF \E i \in 1..Len(chars) : chars[i] = "\n"
    THEN CHOOSE i \in 1..Len(chars) : chars[i] = "\n" /\ \A k \in 1..(i - 1) : chars[k] # "\n"
    ELSE 0

\* content.split('\n'): never empty, the last line is what follows the last
\* line feed
RECURSIVE Split(_)
Split(chars) ==
    IF FirstLF(chars) = 0 THEN <<chars>>
    ELSE <<SubSeq(chars, 1, FirstLF(chars) - 1)>>
         \o Split(SubSeq(chars, FirstLF(chars) + 1, Len(chars)))

Max(a, b) == IF a > b THEN a ELSE b

\* lines.join('\n')
RECURSIVE JoinLF(_)
JoinLF(lines) ==
    IF lines = <<>> THEN <<>>
    ELSE IF Len(lines) = 1 THEN lines[1]
    ELSE lines[1] \o <<"\n">> \o JoinLF(Tail(lines))

\* the matches with a 0-based column
LineMatchesFromZero(lines, i, pattern, contextLines) ==
    LET line == lines[i + 1]
        startLine == Max(0, i - contextLines)
        endLine == Min(Len(lines) - 1, i + contextLines)
        context == JoinLF(SubSeq(lines, startLine + 1, endLine + 1))
        RECURSIVE Scan(_)
        Scan(index) ==
            IF index >= Len(line) THEN <<>>
            ELSE (IF line[index + 1] = pattern
                  THEN <<[line |-> i + 1, column |-> index, text |-> pattern,
                          context |-> context]>>
                  ELSE <<>>) \o Scan(index + 1)
    IN  Scan(0)

\* the matches of a one-character pattern in the line at index i, from 0, of
\* the lines of a file
LineMatches(lines, i, pattern, contextLines) ==
    LET line == lines[i + 1]
        startLine == Max(0, i - contextLines)
        endLine == Min(Len(lines) - 1, i + contextLines)
        context == JoinLF(SubSeq(lines, startLine + 1, endLine + 1))
        RECURSIVE Scan(_)
        Scan(index) ==
            IF index >= Len(line) THEN <<>>
            ELSE (IF line[index + 1] = pattern
                  THEN <<[line |-> i + 1, column |-> index + 1, text |-> pattern,
                          context |-> context]>>
                  ELSE <<>>) \o Scan(index + 1)
    IN  Scan(0)

\* the loop over the lines of a file, from the line at index i on
RECURSIVE FileMatches(_, _, _, _)
FileMatches(lines, i, pattern, contextLines) ==
    IF i >= Len(lines) THEN <<>>
    ELSE LineMatches(lines, i, pattern, contextLines)
         \o FileMatches(lines, i + 1, pattern, contextLines)

RECURSIVE SumMatches(_)
SumMatches(results) ==
    IF results = {} THEN 0
    ELSE LET r == CHOOSE x \in results : TRUE IN Len(r.matches) + SumMatches(results \ {r})

\* join(searchPattern, depthPattern): '**/*' followed by maxDepth - 1 times '/*',
\* and '**/*' itself when maxDepth is 1 or not given
DepthPattern(maxDepth) ==
    IF maxDepth = None THEN Globstar
    ELSE CASE maxDepth[1] = 1 -> Globstar
           [] maxDepth[1] = 2 -> "**/*/*"
           [] maxDepth[1] = 3 -> "**/*/*/*"

searchInFiles(f, a, fault) ==
    IF fault = "io" THEN Out(f, Fail(a.directory, "glob failed"), <<"glob">>)
    ELSE IF a.pattern = BadPattern
         THEN Out(f, Fail(a.directory, "Invalid regular expression"), <<"glob">>)
    ELSE LET files == {q \in Glob(f, DepthPattern(a.maxDepth), a.directory, a.includeHidden) :
                          IsFile(f, q)}
             results == {r \in {[path |-> q,
                                  matches |-> FileMatches(Split(Decode(Node(f, q).content)), 0,
                                                          a.pattern, a.contextLines)]
                                : q \in files} : Len(r.matches) > 0}
         IN  Out(f, Ok(a.directory, [results |-> results, totalMatches |-> SumMatches(results),
                                     pattern |-> a.pattern, directory |-> a.directory]),
                 <<"glob", "stat", "readFile">>)

Whitespace == {"\n", " "}

\* content.replace(/\s+/g, ' '): each run of whitespace becomes one space
RECURSIVE Collapse(_)
Collapse(chars) ==
    IF chars = <<>> THEN <<>>
    ELSE IF Head(chars) \notin Whitespace THEN <<Head(chars)>> \o Collapse(Tail(chars))
    ELSE IF Len(chars) > 1 /\ chars[2] \in Whitespace THEN Collapse(Tail(chars))
    ELSE <<" ">> \o Collapse(Tail(chars))

\* trim() of a string whose whitespace is collapsed
Trim(chars) ==
    LET from == IF chars # <<>> /\ Head(chars) = " " THEN 2 ELSE 1
        to == IF Len(chars) >= from /\ chars[Len(chars)] = " " THEN Len(chars) - 1
              ELSE Len(chars)
    IN  SubSeq(chars, from, to)

\* lines[i] || '' with i counted from 1
LineAt(lines, i) == IF i <= Len(lines) THEN lines[i] ELSE <<>>

\* the loop over the positions of the longer file, from position i on
RECURSIVE Differences(_, _, _)
Differences(lines1, lines2, i) ==
    IF i > Max(Len(lines1), Len(lines2)) THEN <<>>
    ELSE LET line1 == LineAt(lines1, i)
             line2 == LineAt(lines2, i)
             here == IF line1 = line2 THEN <<>>
                     ELSE IF i > Len(lines1)
                          THEN <<[line |-> i, type |-> "added", content |-> line2]>>
                     ELSE IF i > Len(lines2)
                          THEN <<[line |-> i, type |-> "removed", content |-> line1]>>
                     ELSE <<[line |-> i, type |-> "modified",
                             content |-> <<"-", " ">> \o line1 \o <<"\n", "+", " ">> \o line2]>>
         IN  here \o Differences(lines1, lines2, i + 1)

compareFiles(f, a, fault) ==
    IF ~Exists(f, a.file1) THEN Out(f, Fail(a.file1, "ENOENT"), <<"access">>)
    ELSE IF ~Exists(f, a.file2) THEN Out(f, Fail(a.file1, "ENOENT"), <<"access", "access">>)
    ELSE IF IsDir(f, a.file1) \/ IsDir(f, a.file2)
         THEN Out(f, Fail(a.file1, "EISDIR"), <<"access", "access", "readFile">>)
    ELSE IF fault = "io" THEN Out(f, Fail(a.file1, "EIO"), <<"access", "access", "readFile">>)
    ELSE LET content1 == Decode(Node(f, a.file1).content)
             content2 == Decode(Node(f, a.file2).content)
             processedContent1 == IF a.ignoreWhitespace THEN Trim(Collapse(content1))
                                  ELSE content1
             processedContent2 == IF a.ignoreWhitespace THEN Trim(Collapse(content2))
                                  ELSE content2
             lines1 == Split(processedContent1)
             lines2 == Split(processedContent2)
             differences == Differences(lines1, lines2, 1)
         IN  Out(f, Ok(a.file1,
                       [identical |-> differences = <<>>,
                        differences |-> differences,
                        totalDifferences |-> Len(differences),
                        file1 |-> [path |-> a.file1, lines |-> Len(lines1),
                                   size |-> Len(content1)],
                        file2 |-> [path |-> a.file2, lines |-> Len(lines2),
                                   size |-> Len(content2)],
                        options |-> [ignoreWhitespace |-> a.ignoreWhitespace]]),
                 <<"access", "access", "readFile", "readFile">>)

\* the name archiver gives an entry: the path without its leading slash
EntryName(p) ==
    CASE p = "/d" -> "d"
      [] p = "/d/f" -> "d/f"
      [] p = "/d/g" -> "d/g"
      [] OTHER -> p

\* join(destination, entry name), where it lies in the tree
Join(dest, name) ==
    CASE dest = "/x" /\ name = "d/f" -> "/x/d/f"
      [] dest = "/x" /\ name = "f" -> "/x/f"
      [] OTHER -> Missing

\* archive.file(file, {name: file}) and archive.directory(file, file)
Entries(f, file) ==
    {[name |-> EntryName(q), content |-> Node(f, q).content] :
        q \in {q \in Paths : (q = file \/ Under(q, file)) /\ IsFile(f, q)}}

\* the index of the first input that does not exist, or 0
FirstMissing(f, files) ==
    IF \A i \in 1..Len(files) : Exists(f, files[i]) THEN 0
    ELSE CHOOSE i \in 1..Len(files) :
            ~Exists(f, files[i]) /\ \A j \in 1..(i - 1) : Exists(f, files[j])

\* an operation that never hands back an envelope: its promise does not settle,
\* or the error is thrown outside every try block
NoEnvelope(f, calls, uncaught) == [fs |-> f, res |-> NoResponse, calls |-> calls, uncaught |-> uncaught]

\* the output stream opened before the inputs are probed
archiveFilesOpenFirst(f, a, fault) ==
    LET miss == FirstMissing(f, a.files)
        probes == [i \in 1..Len(a.files) |-> "access"]
        opened == IF IsDir(f, Parent(a.archivePath)) /\ ~IsDir(f, a.archivePath)
                  THEN [f EXCEPT ![a.archivePath] = File(<<>>)] ELSE f
    IN  Out(opened, Fail(a.archivePath, "ENOENT"),
            <<"createWriteStream">> \o SubSeq(probes, 1, miss))

archiveFiles(f, a, fault) ==
    LET miss == FirstMissing(f, a.files)
        probes == [i \in 1..Len(a.files) |-> "access"]
    IN  IF miss # 0 THEN Out(f, Fail(a.archivePath, "ENOENT"), SubSeq(probes, 1, miss))
        ELSE IF ~IsDir(f, Parent(a.archivePath)) \/ IsDir(f, a.archivePath)
             \* the output stream fails to open before its error listener is attached:
             \* the stream library either throws the unhandled 'error' event or drops
             \* it, and then the close the operation awaits never comes
             THEN NoEnvelope(f, probes \o <<"createWriteStream">>, fault = "io")
        ELSE LET opened == [f EXCEPT ![a.archivePath] = File(<<>>)]
                 entries == UNION {Entries(opened, a.files[i]) : i \in 1..Len(a.files)}
                 done == [f EXCEPT ![a.archivePath] = Zip(entries)]
             IN  IF fault = "io"
                 THEN Out(opened, Fail(a.archivePath, "EACCES"),
                          probes \o <<"createWriteStream", "stat">>)
                 ELSE Out(done, Ok(a.archivePath,
                                   [archivePath |-> a.archivePath, format |-> "zip",
                                    size |-> Size(done, a.archivePath),
                                    filesCount |-> Len(a.files)]),
                          probes \o <<"createWriteStream", "stat", "stat">>)

\* unzipper.Extract({path: destination}) writing every entry under destination
RECURSIVE Extracted(_, _, _)
Extracted(f, dest, entries) ==
    IF entries = {} THEN f
    ELSE LET e == CHOOSE x \in entries : TRUE
             target == Join(dest, e.name)
             made == IF target = Missing THEN [ok |-> FALSE, fs |-> f]
                     ELSE MkdirP(f, Parent(target))
         IN  Extracted(IF made.ok /\ ~IsDir(made.fs, target)
                       THEN [made.fs EXCEPT ![target] = File(e.content)] ELSE made.fs,
                       dest, entries \ {e})

extractArchive(f, archivePath, destination, fault) ==
    IF archivePath = Missing THEN Out(f, Fail(destination, "ERR_INVALID_ARG_TYPE"), <<>>)
    ELSE IF ~Exists(f, archivePath) THEN Out(f, Fail(destination, "ENOENT"), <<"access">>)
    ELSE IF destination = Missing
         THEN Out(f, Fail(destination, "ERR_INVALID_ARG_TYPE"), <<"access">>)
    ELSE LET made == MkdirP(f, destination)
             g == made.fs
             calls == <<"access", "mkdir", "createReadStream">>
         IN  IF ~made.ok THEN Out(g, Fail(destination, "EEXIST"), <<"access", "mkdir">>)
             \* an error of the read stream: only the extractor has an error listener
             ELSE IF IsDir(g, archivePath) \/ fault = "io" THEN NoEnvelope(g, calls, TRUE)
             ELSE IF ~IsZip(Node(g, archivePath))
                  THEN Out(g, Fail(destination, "invalid signature"), calls)
             ELSE Out(Extracted(g, destination, Node(g, archivePath).zip),
                      Ok(destination, [archivePath |-> archivePath,
                                       destination |-> destination, extracted |-> TRUE]),
                      calls)


----------------------------------------------------------------------------
(* AdvancedOperations: the watcher registry *)

\* a JavaScript Map keeps its keys in insertion order
MapHas(m, k) == \E i \in 1..Len(m) : m[i].key = k
MapGet(m, k) == m[CHOOSE i \in 1..Len(m) : m[i].key = k].value
MapSet(m, k, v) ==
    IF MapHas(m, k)
    THEN [i \in 1..Len(m) |-> IF m[i].key = k THEN [key |-> k, value |-> v] ELSE m[i]]
    ELSE Append(m, [key |-> k, value |-> v])
MapDelete(m, k) == SelectSeq(m, LAMBDA e : e.key # k)
MapKeys(m) == {m[i].key : i \in 1..Len(m)}
MapValues(m) == {m[i].value : i \in 1..Len(m)}

WatchPaths == {"/d/f", "/d/./f"}
EventTypes == {"change"}

\* watcher.close(): resolved, or rejected with the watcher not shut down
Closed(h, id, closeOk) ==
    [h EXCEPT ![id].state = IF closeOk THEN "closed" ELSE "failed",
              ![id].closes = @ + 1]

\* what a registry operation hands back
WOut(w, h, res, calls) == [watchers |-> w, handles |-> h, res |-> res, calls |-> calls]

\* a lookup that takes two spellings of a path for one key
stopWatchingCanon(w, h, path, closeOk) ==
    IF \E i \in 1..Len(w) : Canon(w[i].key) = Canon(path)
    THEN LET key == w[CHOOSE i \in 1..Len(w) : Canon(w[i].key) = Canon(path)].key
             id == MapGet(w, key)
         IN  IF closeOk
             THEN WOut(MapDelete(w, key), Closed(h, id, TRUE), Ok(path, [watching |-> FALSE]), <<>>)
             ELSE WOut(w, Closed(h, id, FALSE), Fail(path, "close failed"), <<>>)
    ELSE WOut(w, h, Fail(path, "Watcher not found"), <<>>)

stopWatching(w, h, path, closeOk) ==
    IF MapHas(w, path)
    THEN LET id == MapGet(w, path) IN
         IF closeOk
         THEN WOut(MapDelete(w, path), Closed(h, id, TRUE), Ok(path, [watching |-> FALSE]), <<>>)
         ELSE WOut(w, Closed(h, id, FALSE), Fail(path, "close failed"), <<>>)
    ELSE WOut(w, h, Fail(path, "Watcher not found"), <<>>)

\* events.slice(-10)
LastTen(events) == SubSeq(events, IF Len(events) > 10 THEN Len(events) - 9 ELSE 1, Len(events))

watchFile(f, w, h, a, closeOk) ==
    IF ~Exists(f, a.path) THEN WOut(w, h, Fail(a.path, "ENOENT"), <<"access">>)
    ELSE LET stopped == IF MapHas(w, a.path) THEN stopWatching(w, h, a.path, closeOk)
                        ELSE WOut(w, h, NoResponse, <<>>)
             id == Len(stopped.handles) + 1
             watcher == [path |-> a.path, recursive |-> a.recursive, state |-> "open",
                         closes |-> 0, events |-> <<>>]
         IN  WOut(MapSet(stopped.watchers, a.path, id), Append(stopped.handles, watcher),
                  Ok(a.path, [watching |-> TRUE, recursive |-> a.recursive,
                              events |-> LastTen(watcher.events)]),
                  <<"access">>)

\* one listener call: events.push({type, path})
pushEvent(h, id, type) ==
    [h EXCEPT ![id].events = Append(@, [type |-> type, path |-> h[id].path])]

\* a loop that a rejected close ends
RECURSIVE CloseAllAbort(_, _, _, _)
CloseAllAbort(w, h, i, failing) ==
    IF i > Len(w) THEN h
    ELSE IF w[i].value \in failing THEN Closed(h, w[i].value, FALSE)
    ELSE CloseAllAbort(w, Closed(h, w[i].value, TRUE), i + 1, failing)

\* cleanup(): close every registered watcher, whatever each close does, then clear
RECURSIVE CloseAll(_, _, _, _)
CloseAll(w, h, i, failing) ==
    IF i > Len(w) THEN h
    ELSE CloseAll(w, Closed(h, w[i].value, w[i].value \notin failing), i + 1, failing)

cleanup(w, h, failing) == [watchers |-> <<>>, handles |-> CloseAll(w, h, 1, failing)]

----------------------------------------------------------------------------
(* FileSystemMCPServer: the cache in front of the resource router *)

DEFAULT_CACHE_TTL == 300000
FILE_WATCH_CACHE_TTL == 30000
\* the bytes a preview reads and the characters it keeps
PreviewBytes == 1024
PreviewChars == 500

Null == [null |-> TRUE]

getCacheKey(type, params) == <<type, params>>

\* a lookup that expires an entry one millisecond early
getCachedDataEarly(c, key, t) ==
    IF key \notin DOMAIN c THEN [cache |-> c, data |-> Null]
    ELSE IF t - c[key].timestamp >= c[key].ttl
         THEN [cache |-> [k \in DOMAIN c \ {key} |-> c[k]], data |-> Null]
    ELSE [cache |-> c, data |-> c[key].data]

\* the value a lookup at time t returns, and the cache the lookup leaves
getCachedData(c, key, t) ==
    IF key \notin DOMAIN c THEN [cache |-> c, data |-> Null]
    ELSE IF t - c[key].timestamp > c[key].ttl
         THEN [cache |-> [k \in DOMAIN c \ {key} |-> c[k]], data |-> Null]
    ELSE [cache |-> c, data |-> c[key].data]

\* a store that drops the ttl it is handed
setCachedDataDefaultTtl(c, key, data, ttl, t) ==
    [k \in DOMAIN c \cup {key} |->
        IF k = key THEN [data |-> data, timestamp |-> t, ttl |-> DEFAULT_CACHE_TTL] ELSE c[k]]

setCachedData(c, key, data, ttl, t) ==
    [k \in DOMAIN c \cup {key} |->
        IF k = key THEN [data |-> data, timestamp |-> t, ttl |-> ttl] ELSE c[k]]

RECURSIVE SumSizes(_)
SumSizes(items) ==
    IF items = {} THEN 0
    ELSE LET i == CHOOSE x \in items : TRUE IN i.size + SumSizes(items \ {i})

\* getDirectoryStructure that lists with includeHidden true
getDirectoryStructureHidden(f, path, fault) ==
    LET listed == listDirectory(f, [path |-> path, recursive |-> FALSE, includeHidden |-> TRUE,
                                    maxDepth |-> None, fileTypes |-> None], fault)
        contents == IF listed.res.success THEN listed.res.data.items ELSE {}
    IN  [value |-> [name |-> Name(path), type |-> "directory", path |-> path,
                    children |-> {[name |-> i.name, type |-> i.type, path |-> i.path,
                                   size |-> i.size] : i \in contents},
                    stats |-> [totalFiles |-> Cardinality({i \in contents : i.type # "directory"}),
                               totalDirs |-> Cardinality({i \in contents : i.type = "directory"}),
                               totalSize |-> SumSizes({i \in contents : i.type # "directory"})]],
         calls |-> listed.calls]

getDirectoryStructure(f, path, fault) ==
    LET listed == listDirectory(f, [path |-> path, recursive |-> FALSE, includeHidden |-> FALSE,
                                    maxDepth |-> None, fileTypes |-> None], fault)
        contents == IF listed.res.success THEN listed.res.data.items ELSE {}
        dirs == {i \in contents : i.type = "directory"}
        files == contents \ dirs
    IN  [value |-> [name |-> Name(path), type |-> "directory", path |-> path,
                    children |-> {[name |-> i.name, type |-> i.type, path |-> i.path,
                                   size |-> i.size] : i \in contents},
                    stats |-> [totalFiles |-> Cardinality(files),
                               totalDirs |-> Cardinality(dirs),
                               totalSize |-> SumSizes(files)]],
         calls |-> listed.calls]

getFilePreview(f, path, fault) ==
    LET statsResult == getFileInfo(f, [path |-> path], fault) IN
    IF ~statsResult.res.success
    THEN [value |-> [path |-> path, type |-> "unknown", preview |-> <<"Unable to get file info">>,
                     canPreview |-> FALSE],
          calls |-> statsResult.calls]
    ELSE IF statsResult.res.data.isDirectory
    THEN [value |-> [path |-> path, type |-> "directory", preview |-> <<"Directory contents">>,
                     canPreview |-> FALSE, size |-> statsResult.res.data.size],
          calls |-> statsResult.calls]
    ELSE LET read == readFile(f, [path |-> path, encoding |-> "utf8", offset |-> Some(0),
                                  limit |-> Some(PreviewBytes)], "none")
             canPreview == read.res.success /\ read.res.data.content # Text(<<>>)
         IN  [value |-> [path |-> path, type |-> "file",
                         preview |-> IF canPreview
                                     THEN SubSeq(read.res.data.content.text, 1,
                                                 Min(PreviewChars,
                                                     Len(read.res.data.content.text)))
                                     ELSE <<"Unable to read file content">>,
                         canPreview |-> canPreview, size |-> statsResult.res.data.size,
                         encoding |-> IF canPreview THEN "utf8" ELSE "binary"],
              calls |-> statsResult.calls \o read.calls]

\* the cache type of each resource kind the router serves
CacheType(kind) ==
    CASE kind = "search" -> "search_cache"
      [] kind = "recent" -> "recent_files"
      [] kind = "structure" -> "directory_structure"
      [] kind = "preview" -> "content_preview"
      [] OTHER -> kind

TtlOf(kind) == IF kind = "watch_status" THEN FILE_WATCH_CACHE_TTL ELSE DEFAULT_CACHE_TTL

\* the body a miss computes for a URI of the kind, and the fs calls it costs
Fresh(f, kind, arg, fault) ==
    CASE kind = "metadata" ->
            LET r == getFileInfo(f, [path |-> arg], fault) IN [value |-> r.res, calls |-> r.calls]
      [] kind = "directory" ->
            LET r == listDirectory(f, [path |-> arg, recursive |-> FALSE,
                                       includeHidden |-> FALSE, maxDepth |-> None,
                                       fileTypes |-> None], fault)
            IN  [value |-> r.res, calls |-> r.calls]
      [] kind = "search" ->
            LET r == searchInFiles(f, [pattern |-> arg, directory |-> Root,
                                       maxDepth |-> None, includeHidden |-> FALSE,
                                       contextLines |-> 2], fault)
            IN  [value |-> r.res, calls |-> r.calls]
      [] kind = "watch_status" ->
            [value |-> [isWatching |-> FALSE, lastEvents |-> <<>>], calls |-> <<>>]
      [] kind = "recent" ->
            [value |-> [files |-> <<>>, count |-> 0], calls |-> <<>>]
      [] kind = "structure" -> getDirectoryStructure(f, arg, fault)
      [] kind = "preview" -> getFilePreview(f, arg, fault)

\* one ReadResource request for a URI the router knows: the response, the cache
\* it leaves and its fs calls.  A hit sets cached on the stored object itself.
\* a recomputation that leaves an entry stored in the meantime as it is
recomputeKeepFirst(f, c, kind, arg, t, fault) ==
    LET cacheKey == getCacheKey(CacheType(kind), arg)
        fresh == Fresh(f, kind, arg, fault)
        data == [arg |-> arg, body |-> fresh.value, cached |-> FALSE, timestamp |-> t]
    IN  [cache |-> IF cacheKey \in DOMAIN c THEN c
                   ELSE setCachedData(c, cacheKey, data, TtlOf(kind), t),
         data |-> data, calls |-> fresh.calls]

\* the branch of a miss from its await on: the payload is built from what the
\* operation returned and stored under the key, whatever the cache holds
recompute(f, c, kind, arg, t, fault) ==
    LET cacheKey == getCacheKey(CacheType(kind), arg)
        fresh == Fresh(f, kind, arg, fault)
        data == [arg |-> arg, body |-> fresh.value, cached |-> FALSE, timestamp |-> t]
    IN  [cache |-> setCachedData(c, cacheKey, data, TtlOf(kind), t),
         data |-> data, calls |-> fresh.calls]

readResource(f, c, kind, arg, t, fault) ==
    LET cacheKey == getCacheKey(CacheType(kind), arg)
        got == getCachedData(c, cacheKey, t)
    IN  IF got.data = Null
        THEN recompute(f, got.cache, kind, arg, t, fault)
        ELSE LET data == [got.data EXCEPT !.cached = TRUE] IN
             [cache |-> [got.cache EXCEPT ![cacheKey].data = data],
              data |-> data, calls |-> <<>>]

----------------------------------------------------------------------------
(* Requests, and the state after construction *)

\* the 16 tools, the Zod schema each call is parsed with and the parameters
\* the tool list declares as required
FileTools == {"read_file", "write_file", "copy_file", "move_file", "delete_file", "get_file_info"}
DirectoryTools == {"create_directory", "list_directory", "find_files", "get_directory_size"}
AdvancedTools == {"search_in_files", "watch_file", "stop_watching", "compare_files",
                  "archive_files", "extract_archive"}
Tools == FileTools \cup DirectoryTools \cup AdvancedTools

Required(name) ==
    CASE name \in {"read_file", "write_file", "delete_file", "get_file_info", "create_directory",
                   "list_directory", "watch_file", "stop_watching", "get_directory_size"}
            -> {"path"}
      [] name \in {"copy_file", "move_file"} -> {"source", "destination"}
      [] name \in {"find_files", "search_in_files"} -> {"pattern"}
      [] name = "compare_files" -> {"file1", "file2"}
      [] name = "archive_files" -> {"files", "archivePath"}
      [] name = "extract_archive" -> {"archivePath", "destination"}
      [] OTHER -> {}

\* the tools whose arguments the dispatcher hands on without a schema
Unparsed == {"stop_watching", "extract_archive", "get_directory_size"}

\* a parameter is missing: undefined, or for the file list also empty
HasRequired(name, a) ==
    \A k \in Required(name) : IF k = "files" THEN a[k] # <<>> ELSE a[k] # Missing

\* XSchema.parse(args) throws for a missing required field
Parses(name, a) == name \in Unparsed \/ HasRequired(name, a)

ToolCall(name, a) == [method |-> "tools/call", name |-> name, args |-> a]
NoArgs == [none |-> TRUE]

Tree0 ==
    [p \in Paths |-> CASE p = "/d" -> Dir
                       [] p = "/d/f" -> File(<<"x">>)
                       [] OTHER -> Absent]

EmptyMap == [k \in {} |-> Null]

Init ==
    /\ fs = Tree0
    /\ watchers = <<>>
    /\ handles = <<>>
    /\ cache = EmptyMap
    /\ now = 0
    /\ request = [method |-> "none", name |-> "none", args |-> NoArgs]
    /\ result = NoResponse
    /\ oscalls = <<>>
    /\ sent = EmptyMap
    /\ proc = [status |-> "running", pending |-> "none"]
    /\ served = 0
    /\ inflight = <<>>

\* the server takes a request: it runs, and no process event is waiting
Running == proc.status = "running" /\ proc.pending = "none"
Accepting == Running /\ served < MaxRequests

\* the catch block of the CallTool handler
Thrown(f, message) == Out(f, Fail(Missing, message), <<>>)

\* a handler that empties the cache when the tool has succeeded
RespondInvalidating(req, out) ==
    /\ Accepting
    /\ served' = served + 1
    /\ request' = req
    /\ result' = out.res
    /\ fs' = out.fs
    /\ oscalls' = out.calls
    /\ proc' = IF out.uncaught THEN [proc EXCEPT !.pending = "uncaughtException"] ELSE proc
    /\ cache' = IF out.res.kind = "envelope" /\ out.res.success THEN EmptyMap ELSE cache
    /\ UNCHANGED <<watchers, handles, now, sent, inflight>>

\* the handler of a tool that touches the tree only
Respond(req, out) ==
    /\ Accepting
    /\ served' = served + 1
    /\ request' = req
    /\ result' = out.res
    /\ fs' = out.fs
    /\ oscalls' = out.calls
    /\ proc' = IF out.uncaught THEN [proc EXCEPT !.pending = "uncaughtException"] ELSE proc
    /\ UNCHANGED <<watchers, handles, cache, now, sent, inflight>>

\* the handler of a tool that touches the registry
RespondW(req, out) ==
    /\ Accepting
    /\ served' = served + 1
    /\ request' = req
    /\ result' = out.res
    /\ watchers' = out.watchers
    /\ handles' = out.handles
    /\ oscalls' = out.calls
    /\ UNCHANGED <<fs, cache, now, sent, proc, inflight>>

----------------------------------------------------------------------------
(* The CallTool handler, one action per tool *)

\* read_file over the given argument values
ReadFileOf(paths, encodings, offsets, limits) ==
    \E path \in paths, encoding \in encodings, offset \in offsets, limit \in limits,
       fault \in Faults :
        LET a == [path |-> path, encoding |-> encoding, offset |-> offset, limit |-> limit] IN
        Respond(ToolCall("read_file", a),
                IF Parses("read_file", a) THEN readFile(fs, a, fault) ELSE Thrown(fs, "ZodError"))

ReadFile == ReadFileOf({"/d/f", "/d", Missing}, {"utf8"}, {None}, {None})

\* write_file over the given argument values
WriteFileOf(paths, contents) ==
    \E path \in paths, content \in contents, createDirs \in BOOLEAN,
       append \in BOOLEAN, fault \in Faults :
        LET a == [path |-> path, content |-> content, createDirs |-> createDirs,
                  append |-> append]
        IN  /\ (path # Missing /\ append /\ IsFile(fs, path))
                  => Len(Node(fs, path).content) + Len(Encode(content)) <= MaxContentLen
            /\ Respond(ToolCall("write_file", a),
                       IF Parses("write_file", a) THEN writeFile(fs, a, fault)
                       ELSE Thrown(fs, "ZodError"))

WriteFile == WriteFileOf({"/d/f", Missing}, Contents)

\* copy_file over the given argument values
CopyFileOf(sources, destinations) ==
    \E source \in sources, destination \in destinations,
       overwrite \in BOOLEAN, fault \in Faults :
        LET a == [source |-> source, destination |-> destination, overwrite |-> overwrite] IN
        Respond(ToolCall("copy_file", a),
                IF Parses("copy_file", a) THEN copyFile(fs, a, fault) ELSE Thrown(fs, "ZodError"))

CopyFile == CopyFileOf({"/d/f", Missing}, {"/d/g", Missing})

\* move_file over the given argument values
MoveFileOf(sources, destinations) ==
    \E source \in sources, destination \in destinations,
       overwrite \in BOOLEAN, fault \in Faults :
        LET a == [source |-> source, destination |-> destination, overwrite |-> overwrite] IN
        Respond(ToolCall("move_file", a),
                IF Parses("move_file", a) THEN moveFile(fs, a, fault) ELSE Thrown(fs, "ZodError"))

MoveFile == MoveFileOf({"/d/g", Missing}, {"/d/f", Missing})

\* delete_file over the given paths
DeleteFileOf(paths) ==
    \E path \in paths, recursive \in BOOLEAN, force \in BOOLEAN, fault \in Faults :
        LET a == [path |-> path, recursive |-> recursive, force |-> force] IN
        Respond(ToolCall("delete_file", a),
                IF Parses("delete_file", a) THEN deleteFile(fs, a, fault)
                ELSE Thrown(fs, "ZodError"))

DeleteFile == DeleteFileOf(ToolPaths \cup {Missing})

GetFileInfo ==
    \E path \in {"/d/f", Missing}, fault \in Faults :
        LET a == [path |-> path] IN
        Respond(ToolCall("get_file_info", a),
                IF Parses("get_file_info", a) THEN getFileInfo(fs, a, fault)
                ELSE Thrown(fs, "ZodError"))

\* create_directory over the given paths
CreateDirectoryOf(paths) ==
    \E path \in paths, recursive \in BOOLEAN, fault \in Faults :
        LET a == [path |-> path, recursive |-> recursive] IN
        Respond(ToolCall("create_directory", a),
                IF Parses("create_directory", a) THEN createDirectory(fs, a, fault)
                ELSE Thrown(fs, "ZodError"))

CreateDirectory == CreateDirectoryOf({"/d", "/d/g", Missing})

\* list_directory over the given argument values
ListDirectoryOf(paths, hiddens, depths, types) ==
    \E path \in paths, recursive \in BOOLEAN, includeHidden \in hiddens,
       maxDepth \in depths, fileTypes \in types, fault \in Faults :
        LET a == [path |-> path, recursive |-> recursive, includeHidden |-> includeHidden,
                  maxDepth |-> maxDepth, fileTypes |-> fileTypes]
        IN  Respond(ToolCall("list_directory", a),
                    IF Parses("list_directory", a) THEN listDirectory(fs, a, fault)
                    ELSE Thrown(fs, "ZodError"))

ListDirectory == ListDirectoryOf({"/d", Missing}, {FALSE}, {None}, {None})

\* find_files over the given argument values
FindFilesOf(patterns, directories, depths) ==
    \E pattern \in patterns, directory \in directories, maxDepth \in depths, fault \in Faults :
        LET a == [pattern |-> pattern, directory |-> directory, maxDepth |-> maxDepth,
                  includeHidden |-> FALSE, fileTypes |-> None]
        IN  Respond(ToolCall("find_files", a),
                    IF Parses("find_files", a) THEN findFiles(fs, a, fault)
                    ELSE Thrown(fs, "ZodError"))

FindFiles == FindFilesOf({Star, Missing}, {"/d"}, {None})

\* get_directory_size over the given paths
GetDirectorySizeOf(paths) ==
    \E path \in paths :
        LET a == [path |-> path] IN
        Respond(ToolCall("get_directory_size", a), getDirectorySize(fs, a.path))

GetDirectorySize == GetDirectorySizeOf({"/d", Missing})

\* search_in_files over the given argument values
SearchInFilesOf(patterns, contexts, directories, depths) ==
    \E pattern \in patterns, contextLines \in contexts, directory \in directories,
       maxDepth \in depths, fault \in Faults :
        LET a == [pattern |-> pattern, directory |-> directory, maxDepth |-> maxDepth,
                  includeHidden |-> FALSE, contextLines |-> contextLines]
        IN  Respond(ToolCall("search_in_files", a),
                    IF Parses("search_in_files", a) THEN searchInFiles(fs, a, fault)
                    ELSE Thrown(fs, "ZodError"))

SearchInFiles == SearchInFilesOf({"x", BadPattern, Missing}, {2}, {Root}, {None})

\* compare_files over the given argument values
CompareFilesOf(files1, files2, whitespaces) ==
    \E file1 \in files1, file2 \in files2, ignoreWhitespace \in whitespaces,
       fault \in Faults :
        LET a == [file1 |-> file1, file2 |-> file2, ignoreWhitespace |-> ignoreWhitespace] IN
        Respond(ToolCall("compare_files", a),
                IF Parses("compare_files", a) THEN compareFiles(fs, a, fault)
                ELSE Thrown(fs, "ZodError"))

CompareFiles == CompareFilesOf({"/d/f", Missing}, {"/d/g", "/d/f"}, {FALSE})

ArchiveFilesOf(fileLists, archivePaths) ==
    \E files \in fileLists, archivePath \in archivePaths, fault \in Faults :
        LET a == [files |-> files, archivePath |-> archivePath] IN
        Respond(ToolCall("archive_files", a),
                IF Parses("archive_files", a) THEN archiveFiles(fs, a, fault)
                ELSE Thrown(fs, "ZodError"))

ArchiveFiles == ArchiveFilesOf({<<"/d/f">>, <<>>}, {"/d/g", Missing})

ExtractArchiveOf(archivePaths, destinations) ==
    \E archivePath \in archivePaths, destination \in destinations, fault \in Faults :
        LET a == [archivePath |-> archivePath, destination |-> destination] IN
        Respond(ToolCall("extract_archive", a),
                extractArchive(fs, a.archivePath, a.destination, fault))

ExtractArchive == ExtractArchiveOf({"/d/g", "/d", Missing}, {"/x", Missing})

WatchFile ==
    \E path \in WatchPaths \cup {Missing}, closeOk \in BOOLEAN :
        LET a == [path |-> path, recursive |-> FALSE] IN
        /\ Len(handles) < MaxHandles
        /\ RespondW(ToolCall("watch_file", a),
                    IF Parses("watch_file", a) THEN watchFile(fs, watchers, handles, a, closeOk)
                    ELSE WOut(watchers, handles, Fail(Missing, "ZodError"), <<>>))

StopWatching ==
    \E path \in WatchPaths \cup {Missing}, closeOk \in BOOLEAN :
        LET a == [path |-> path] IN
        RespondW(ToolCall("stop_watching", a), stopWatching(watchers, handles, a.path, closeOk))

\* the default branch of the switch
UnknownTool ==
    Respond(ToolCall("no_such_tool", NoArgs), Thrown(fs, "Unknown tool"))

----------------------------------------------------------------------------
(* The ReadResource handler, the clock, watcher events and the process events *)

\* the instants the clock is sampled at: 0 and both sides of each TTL
Instants == {0, FILE_WATCH_CACHE_TTL, FILE_WATCH_CACHE_TTL + 1, DEFAULT_CACHE_TTL,
             DEFAULT_CACHE_TTL + 1}

Uris ==
    {[kind |-> "metadata", arg |-> "/d/f"], [kind |-> "directory", arg |-> "/d"],
     [kind |-> "search", arg |-> "x"], [kind |-> "watch_status", arg |-> "/d/f"],
     [kind |-> "recent", arg |-> "read"], [kind |-> "structure", arg |-> "/d"],
     [kind |-> "preview", arg |-> "/d/f"]}
WatchUris == {u \in Uris : u.kind = "watch_status"}

KeyOf(u) == getCacheKey(CacheType(u.kind), u.arg)

ReadResourceOf(uris) ==
    \E u \in uris, fault \in Faults :
        LET r == readResource(fs, cache, u.kind, u.arg, now, fault) IN
        /\ Accepting
        /\ served' = served + 1
        /\ u \in DOMAIN sent \/ Cardinality(DOMAIN sent) < MaxCacheKeys
        /\ request' = [method |-> "resources/read", name |-> u.kind, args |-> u]
        /\ result' = [kind |-> "resource", data |-> r.data]
        /\ cache' = r.cache
        /\ sent' = [v \in DOMAIN sent \cup {u} |-> IF v = u THEN r.data ELSE sent[v]]
        /\ oscalls' = r.calls
        /\ UNCHANGED <<fs, watchers, handles, now, proc, inflight>>

ReadResource == ReadResourceOf(Uris)
ReadWatchStatus == ReadResourceOf(WatchUris)

\* a URI no branch of the router matches: the handler throws
ReadUnknownResource ==
    /\ Accepting
    /\ served' = served + 1
    /\ request' = [method |-> "resources/read", name |-> "unknown", args |-> NoArgs]
    /\ result' = [kind |-> "error", error |-> "Unknown resource"]
    /\ oscalls' = <<>>
    /\ UNCHANGED <<fs, watchers, handles, cache, now, sent, proc, inflight>>

Tick ==
    /\ \E t \in Instants : t > now /\ now' = t
    /\ UNCHANGED <<fs, watchers, handles, cache, request, result, oscalls, sent, proc, served, inflight>>

RECURSIVE Delivered(_)
Delivered(h) == IF h = <<>> THEN 0 ELSE Len(Head(h).events) + Delivered(Tail(h))

\* chokidar calls a listener of a watcher that has not been closed
DeliverEvent ==
    \E id \in 1..Len(handles), type \in EventTypes :
        /\ proc.status = "running"
        /\ handles[id].state # "closed"
        /\ Delivered(handles) < MaxEvents
        /\ handles' = pushEvent(handles, id, type)
        /\ UNCHANGED <<fs, watchers, cache, now, request, result, oscalls, sent, proc, served, inflight>>

ProcessEvents == {"SIGINT", "SIGTERM", "uncaughtException", "unhandledRejection"}
ExitCode(ev) == IF ev \in {"SIGINT", "SIGTERM"} THEN 0 ELSE 1

\* a handler of setupErrorHandling: await cleanup(), then process.exit(code)
Shutdown ==
    \E ev \in ProcessEvents, failing \in SUBSET MapValues(watchers) :
        LET c == cleanup(watchers, handles, failing) IN
        /\ proc.status = "running"
        /\ proc.pending \in {"none", ev}
        /\ watchers' = c.watchers
        /\ handles' = c.handles
        /\ proc' = [status |-> "exited", code |-> ExitCode(ev), event |-> ev]
        /\ request' = [method |-> "process", name |-> ev, args |-> NoArgs]
        /\ result' = NoResponse
        /\ oscalls' = <<>>
        /\ UNCHANGED <<fs, cache, now, sent, served, inflight>>

----------------------------------------------------------------------------
(* Specifications *)

\* the tool surface and the process events
Next ==
    \/ ReadFile \/ WriteFile \/ CopyFile \/ MoveFile \/ DeleteFile \/ GetFileInfo
    \/ CreateDirectory \/ ListDirectory \/ FindFiles \/ GetDirectorySize
    \/ SearchInFiles \/ CompareFiles \/ ArchiveFiles \/ ExtractArchive
    \/ WatchFile \/ StopWatching \/ UnknownTool
    \/ Shutdown

Spec == Init /\ [][Next]_vars

\* the resource router over a tree and a registry that change
NextCache ==
    \/ ReadResource \/ ReadUnknownResource \/ Tick
    \/ CreateDirectory

SpecCache == Init /\ [][NextCache]_vars

\* the watcher registry, its events and the shutdown handlers
NextWatch ==
    \/ WatchFile \/ StopWatching \/ DeliverEvent \/ ReadWatchStatus \/ Shutdown

SpecWatch == Init /\ [][NextWatch]_vars

----------------------------------------------------------------------------
(* The cache law and TTL expiry *)

\* the step is a fetch of the recognised resource URI u
Fetches(u) ==
    /\ served' = served + 1
    /\ request'.method = "resources/read"
    /\ request'.args = u

\* the age, at the time of the fetch, of the payload served last for u
Age(u) == now - sent[u].timestamp

CacheLawStep(u) ==
    Fetches(u) =>
        /\ u \notin DOMAIN sent => ~result'.data.cached
        /\ (u \in DOMAIN sent /\ Age(u) <= TtlOf(u.kind)) =>
              /\ result'.data = [sent[u] EXCEPT !.cached = TRUE]
              /\ result'.data.timestamp = sent[u].timestamp
        /\ (u \in DOMAIN sent /\ Age(u) > TtlOf(u.kind)) =>
              /\ ~result'.data.cached
              /\ result'.data.timestamp = now
              /\ result'.data.timestamp # sent[u].timestamp
              /\ \E fault \in Faults : result'.data.body = Fresh(fs, u.kind, u.arg, fault).value

\* C1: cache law.  A fetch of a URI is answered, while the payload served last
\* for the URI is no older than the TTL of its kind, by that payload with
\* cached = true and the timestamp unchanged; the first fetch of a URI has
\* cached = false; and a fetch made after the TTL has elapsed recomputes the
\* payload from the tree as it is now, with cached = false and a new timestamp.
C1_CacheLaw == [][\A u \in Uris : CacheLawStep(u)]_vars

\* three fetches of the watch-status URI: a miss at 0, a hit within the TTL
\* and a recomputation past it
C1_Witness ==
    /\ served = 3
    /\ request.method = "resources/read"
    /\ request.name = "watch_status"
    /\ DOMAIN sent = {request.args}
    /\ now = FILE_WATCH_CACHE_TTL + 1
    /\ ~result.data.cached
    /\ result.data.timestamp = now

\* what the claim says of a lookup of key k at time t
LookupLaw(k, t) ==
    LET got == getCachedData(cache, k, t) IN
    IF t - cache[k].timestamp <= cache[k].ttl
    THEN got.data = cache[k].data /\ got.cache = cache
    ELSE got.data = Null /\ DOMAIN got.cache = DOMAIN cache \ {k}
                         /\ \A j \in DOMAIN got.cache : got.cache[j] = cache[j]

TtlClasses ==
    \A k \in DOMAIN cache :
        cache[k].ttl = IF k[1] = "watch_status" THEN 30 * 1000 ELSE 5 * 60 * 1000

\* only a fetch whose key is k touches the entry of k
NoSweep ==
    \A k \in DOMAIN cache :
        \/ k \in DOMAIN cache' /\ cache'[k] = cache[k]
        \/ \E u \in Uris : Fetches(u) /\ KeyOf(u) = k

\* C2: TTL expiry.  A lookup returns the stored value while now - storedAt <= ttl
\* and returns absent, removing the entry and nothing else, once
\* now - storedAt > ttl; a watch-status entry has ttl 30 seconds and every other
\* entry 5 minutes; and no step but a fetch of its key changes or removes an
\* entry, expired or not.
C2_TtlExpiry ==
    /\ [](TtlClasses /\ \A k \in DOMAIN cache : \A t \in Instants : t >= now => LookupLaw(k, t))
    /\ [][NoSweep]_vars

\* an expired watch-status entry is still stored while another key is fetched
C2_Witness ==
    /\ \E k \in DOMAIN cache :
          /\ k[1] = "watch_status"
          /\ now - cache[k].timestamp > cache[k].ttl
          /\ request.args \in Uris
          /\ KeyOf(request.args) # k
          /\ ~result.data.cached
          /\ result.data.timestamp > cache[k].timestamp

----------------------------------------------------------------------------
(* The watcher registry *)

\* the step is the call of the tool with the arguments a
Calls(name, a) ==
    /\ served' = served + 1
    /\ request' = ToolCall(name, a)

\* the registrations a registry holds under the path string p
Registrations(w, p) == {i \in 1..Len(w) : w[i].key = p}

\* the step is a successful watch(p) while a registration of p exists
Replaces(p) ==
    /\ Calls("watch_file", [path |-> p, recursive |-> FALSE])
    /\ MapHas(watchers, p)
    /\ result'.success

\* C3: watch replace law.  A second watch(p) leaves exactly one registration of
\* p, has closed the handle the first call created, and leaves a registry in
\* which one stopWatch(p) succeeds and the next one fails.
C3_WatchReplace ==
    [][\A p \in WatchPaths :
         Replaces(p) =>
            LET first == stopWatching(watchers', handles', p, TRUE)
                second == stopWatching(first.watchers, first.handles, p, TRUE)
            IN  /\ Cardinality(Registrations(watchers', p)) = 1
                /\ handles'[MapGet(watchers, p)].state = "closed"
                /\ first.res.success /\ ~second.res.success]_vars

\* C4: the events recorded for a watcher are a buffer of capacity 10: at most
\* 10 are held, the most recent ones in arrival order.
C4_RecentEventsBounded ==
    \A id \in 1..Len(handles) :
        /\ Len(handles[id].events) <= 10
        /\ handles[id].events = LastTen(handles[id].events)

\* the step is stopWatch(p)
Stops(p) == Calls("stop_watching", [path |-> p])

\* the handles other than id are as they were
OthersKept(id) ==
    /\ Len(handles') = Len(handles)
    /\ \A j \in 1..Len(handles) : j # id => handles'[j] = handles[j]

NotFoundLaw(p) ==
    ~MapHas(watchers, p) =>
        /\ ~result'.success
        /\ result'.error = "Watcher not found"
        /\ watchers' = watchers /\ handles' = handles

\* C5 as the specification states it: stopWatch(p) succeeds, closing the handle
\* and removing the registration, exactly when the registry holds a
\* registration under the string p; otherwise it fails with NotFound and the
\* registry is unchanged.
C5_StopExactlyWhenRegistered ==
    [][\A p \in WatchPaths \cup {Missing} :
         Stops(p) =>
            /\ result'.success <=> MapHas(watchers, p)
            /\ MapHas(watchers, p) =>
                  /\ handles'[MapGet(watchers, p)].state = "closed"
                  /\ watchers' = MapDelete(watchers, p)
            /\ NotFoundLaw(p)]_vars

\* C5, amended: stopWatch(p) succeeds exactly when the registry holds a
\* registration under the string p and the close of its handle does not fail;
\* then the handle is closed and that registration alone is removed.  When
\* the close fails the call fails with error set and the registry is
\* unchanged; with no registration under p it fails with NotFound and the
\* registry, registrations under other spellings included, is unchanged.
C5_StopUnlessCloseFails ==
    [][\A p \in WatchPaths \cup {Missing} :
         Stops(p) =>
            /\ NotFoundLaw(p)
            /\ MapHas(watchers, p) =>
                  LET id == MapGet(watchers, p) IN
                  /\ OthersKept(id)
                  /\ handles'[id].closes = handles[id].closes + 1
                  /\ result'.success <=> handles'[id].state = "closed"
                  /\ result'.success => watchers' = MapDelete(watchers, p)
                  /\ ~result'.success =>
                        /\ result'.error # NoError
                        /\ handles'[id].state = "failed"
                        /\ watchers' = watchers]_vars

\* a stop under one spelling has succeeded and a second one has failed with
\* NotFound, and the registration under the other spelling is still there
C5_Witness ==
    /\ request = ToolCall("stop_watching", [path |-> "/d/./f"])
    /\ ~result.success /\ result.error = "Watcher not found"
    /\ MapKeys(watchers) = {"/d/f"}
    /\ Len(handles) = 2
    /\ handles[1].state = "open" /\ handles[2].state = "closed"

\* the registration an active watcher of p has, if any
Active(w, h, p) == MapHas(w, p) /\ h[MapGet(w, p)].state # "closed"

\* C6: a watch-status fetch that is not served from the cache reports the
\* registry as it is: isWatching exactly when p has an active registration,
\* and lastEvents the recent events of that registration.
C6_WatchStatusReportsRegistry ==
    [][\A u \in WatchUris :
         (Fetches(u) /\ ~result'.data.cached) =>
            /\ result'.data.body.isWatching <=> Active(watchers, handles, u.arg)
            /\ result'.data.body.lastEvents =
                  IF Active(watchers, handles, u.arg)
                  THEN LastTen(handles[MapGet(watchers, u.arg)].events) ELSE <<>>]_vars

\* the step is a handler of a process event running to its exit
Exits == proc.status = "running" /\ proc'.status = "exited"

\* C7: shutdown ordering.  The process exits with code 0 on SIGINT and SIGTERM
\* and with code 1 on an uncaught exception and an unhandled rejection; by
\* the time it exits, close has been called once more on every registered
\* handle, whether or not another close failed, the handles that are not
\* registered are untouched, and the registry is empty.
C7_ShutdownOrdering ==
    [][Exits =>
         /\ proc'.event \in {"SIGINT", "SIGTERM"} => proc'.code = 0
         /\ proc'.event \in {"uncaughtException", "unhandledRejection"} => proc'.code = 1
         /\ proc'.event \in ProcessEvents
         /\ watchers' = <<>>
         /\ Len(handles') = Len(handles)
         /\ \A id \in 1..Len(handles) :
               IF id \in MapValues(watchers)
               THEN /\ handles'[id].closes = handles[id].closes + 1
                    /\ handles'[id].state \in {"closed", "failed"}
               ELSE handles'[id] = handles[id]]_vars

\* an exit with code 1 after two watches: the close of the handle registered
\* first failed and the handle registered second was closed all the same
C7_Witness ==
    /\ proc.status = "exited" /\ proc.code = 1
    /\ served = 2
    /\ watchers = <<>>
    /\ Len(handles) = 2
    /\ handles[1].state = "failed" /\ handles[1].closes = 1
    /\ handles[2].state = "closed" /\ handles[2].closes = 1

----------------------------------------------------------------------------
(* The tool surface *)

WatchTools == {"watch_file", "stop_watching"}

\* C8: Result Envelope invariant.  Every envelope an operation returns has
\* error set when success is false, and carries data only when success is
\* true, the envelopes of watch start and stop excepted.
C8_EnvelopeInvariant ==
    (request.method = "tools/call" /\ result.kind = "envelope") =>
        /\ ~result.success => result.error # NoError
        /\ (result.data # NoData /\ request.name \notin WatchTools) => result.success

\* a deletion refused for want of the recursive flag: a failure with error
\* set and no data
C8_Witness ==
    /\ request.method = "tools/call" /\ request.name = "delete_file"
    /\ result.kind = "envelope" /\ ~result.success
    /\ result.error = "Directory requires recursive deletion"
    /\ result.data = NoData

\* the step is a call of some tool name
CallsTool == served' = served + 1 /\ request'.method = "tools/call"

IsFailure(res) == res.kind = "envelope" /\ ~res.success /\ res.error # NoError

\* C9: every tool call is answered with an envelope and no exception leaves
\* an operation; a call of an unknown tool name is answered with a failure
\* that has error set, invokes no operation and leaves the tree, the cache
\* and the registry as they were.
C9_EveryCallAnswered ==
    [][CallsTool =>
         /\ result'.kind = "envelope"
         /\ proc'.pending = "none"
         /\ request'.name \notin Tools =>
               /\ IsFailure(result')
               /\ oscalls' = <<>>
               /\ UNCHANGED <<fs, cache, watchers, handles>>]_vars

\* C10: validation before I/O.  A call of one of the 16 tools that lacks a
\* required parameter is answered with a failure that has error set, after
\* no fs call and with the tree, the cache and the registry as they were.
C10_ValidationBeforeIO ==
    [][(CallsTool /\ request'.name \in Tools /\ ~HasRequired(request'.name, request'.args)) =>
         /\ IsFailure(result')
         /\ oscalls' = <<>>
         /\ UNCHANGED <<fs, cache, watchers, handles>>]_vars

----------------------------------------------------------------------------
(* The file operations over every tree the server can be started on *)

\* the contents of the files of a starting tree
StartContents == {<<>>, <<"x">>, <<"x", "y">>}

\* the strings a write carries
Strings == {<<>>, <<"x">>, <<"y">>, <<LoneSurrogate>>}

\* the offsets and limits the schema admits, up to one past the longest file
Offsets == {None} \cup {Some(n) : n \in 0..MaxContentLen + 1}
Limits == {None} \cup {Some(n) : n \in 1..MaxContentLen + 1}

\* every node but the root has a directory above it
WellFormed(t) ==
    \A p \in Paths : t[p].kind # "absent" => (Parent(p) = Root \/ t[Parent(p)].kind = "dir")

Trees ==
    {t \in {[p \in Paths |-> IF p \in ToolPaths THEN u[p] ELSE Absent] :
              u \in [ToolPaths -> {Absent, Dir} \cup {File(c) : c \in StartContents}]} :
        WellFormed(t)}

InitFiles ==
    /\ fs \in Trees
    /\ watchers = <<>>
    /\ handles = <<>>
    /\ cache = EmptyMap
    /\ now = 0
    /\ request = [method |-> "none", name |-> "none", args |-> NoArgs]
    /\ result = NoResponse
    /\ oscalls = <<>>
    /\ sent = EmptyMap
    /\ proc = [status |-> "running", pending |-> "none"]
    /\ served = 0
    /\ inflight = <<>>

ReadAnyFile == served < MaxFileRequests /\ ReadFileOf(ToolPaths, Encodings, Offsets, Limits)
WriteAnyFile == served < MaxFileRequests /\ WriteFileOf(ToolPaths, Strings)
CopyAnyFile == served < MaxFileRequests /\ CopyFileOf(ToolPaths, ToolPaths)
MoveAnyFile == served < MaxFileRequests /\ MoveFileOf(ToolPaths, ToolPaths)
DeleteAnyFile == served < MaxFileRequests /\ DeleteFile

NextFiles ==
    \/ ReadAnyFile \/ WriteAnyFile \/ CopyAnyFile \/ MoveAnyFile \/ DeleteAnyFile

SpecFiles == InitFiles /\ [][NextFiles]_vars

----------------------------------------------------------------------------
(* Deleting, copying and moving *)

\* the step is a call of the tool that was parsed, and so has its arguments
CallsParsed(name) ==
    /\ CallsTool
    /\ request'.name = name
    /\ HasRequired(name, request'.args)

\* C11: delete-directory guard.  A delete with recursive false of a path that
\* is a directory, empty or not, with force or without, is answered with the
\* failure "Directory requires recursive deletion" and the tree is as it was.
C11_DeleteDirectoryGuard ==
    [][(/\ CallsParsed("delete_file")
        /\ ~request'.args.recursive
        /\ IsDir(fs, request'.args.path))
          => /\ IsFailure(result')
             /\ result'.error = "Directory requires recursive deletion"
             /\ fs' = fs]_vars

\* a forced delete of a directory that holds a file was refused
C11_Witness ==
    /\ request = ToolCall("delete_file", [path |-> "/d", recursive |-> FALSE, force |-> TRUE])
    /\ IsFailure(result)
    /\ IsDir(fs, "/d") /\ IsFile(fs, "/d/f")

\* C12: a copy with overwrite false of an existing source onto an existing
\* destination is answered with the failure "File exists" and the tree is as
\* it was; a copy that succeeds, with overwrite true or onto an absent
\* destination, leaves the destination with the source's content and the
\* source as it was.
C12_CopyLaw ==
    [][CallsParsed("copy_file") =>
         LET s == request'.args.source
             d == request'.args.destination
             overwrite == request'.args.overwrite
         IN  /\ (Exists(fs, s) /\ Exists(fs, d) /\ ~overwrite)
                   => /\ IsFailure(result') /\ result'.error = "File exists"
                      /\ fs' = fs
             /\ ((overwrite \/ ~Exists(fs, d)) /\ result'.success)
                   => /\ IsFile(fs', d) /\ fs'[d] = fs[s]
                      /\ fs'[s] = fs[s]]_vars

\* a copy onto an existing file with other content was refused
C12_Witness ==
    /\ request = ToolCall("copy_file",
                          [source |-> "/d/f", destination |-> "/d/g", overwrite |-> FALSE])
    /\ IsFailure(result) /\ result.error = "File exists"
    /\ IsFile(fs, "/d/f") /\ IsFile(fs, "/d/g") /\ fs["/d/f"] # fs["/d/g"]

\* the step is a move whose fs.rename was reached and raised
RenameFails == oscalls' = <<"access", "access", "mkdir", "rename">> /\ ~result'.success

\* what C13 says of a move that is refused or whose rename fails: a move with
\* overwrite false onto an existing destination is answered with the failure
\* "File exists" and the tree is as it was; when fs.rename fails the answer is
\* a failure and the source is still there with its content.
MoveFailureLaw(s, d, overwrite) ==
    /\ (Exists(fs, s) /\ Exists(fs, d) /\ ~overwrite)
          => /\ IsFailure(result') /\ result'.error = "File exists"
             /\ fs' = fs
    /\ RenameFails => IsFailure(result') /\ Exists(fs', s) /\ fs'[s] = fs[s]

\* C13 as stated: after every move that returns success the source path does
\* not exist and the destination holds what the source held; a refused move
\* and a move whose rename fails leave the source as it was.
C13_MoveLaw ==
    [][CallsParsed("move_file") =>
         LET s == request'.args.source
             d == request'.args.destination
         IN  /\ result'.success => ~Exists(fs', s) /\ fs'[d] = fs[s]
             /\ MoveFailureLaw(s, d, request'.args.overwrite)]_vars

\* C13, amended: after a move that returns success the destination holds what
\* the source held, and the source path does not exist unless it is the
\* destination itself, in which case the tree is as it was; a refused move and
\* a move whose rename fails leave the source as it was.
C13_MoveLawDistinctPaths ==
    [][CallsParsed("move_file") =>
         LET s == request'.args.source
             d == request'.args.destination
         IN  /\ result'.success =>
                   /\ fs'[d] = fs[s]
                   /\ IF s = d THEN fs' = fs ELSE ~Exists(fs', s)
             /\ MoveFailureLaw(s, d, request'.args.overwrite)]_vars

\* a file was moved onto another file: the source is gone
C13_Witness ==
    /\ request = ToolCall("move_file",
                          [source |-> "/d/f", destination |-> "/d/g", overwrite |-> TRUE])
    /\ result.kind = "envelope" /\ result.success
    /\ ~Exists(fs, "/d/f") /\ IsFile(fs, "/d/g")

----------------------------------------------------------------------------
(* Writing and reading *)

\* read(path) with the default encoding and no range, on the tree f
ReadBack(f, p) ==
    readFile(f, [path |-> p, encoding |-> "utf8", offset |-> None, limit |-> None], "none").res

\* the step is a write that succeeded
Wrote == CallsParsed("write_file") /\ result'.success

\* after the step, read(path) returns what it returned before, if the write
\* appended to a file, followed by the string c
ReadsBack(c) ==
    LET p == request'.args.path
        before == IF request'.args.append /\ IsFile(fs, p)
                  THEN ReadBack(fs, p).data.content.text ELSE <<>>
    IN  /\ ReadBack(fs', p).success
        /\ ReadBack(fs', p).data.content = Text(before \o c)

\* C14 as stated: after a successful write of C with append false, read(path)
\* returns C whatever the file held; after a successful write of D with
\* append true to a file holding C, read(path) returns C followed by D.
C14_WriteReadRoundTrip ==
    [][Wrote => ReadsBack(request'.args.content)]_vars

\* the string with U+FFFD in the place of each unpaired surrogate
RECURSIVE Scrubbed(_)
Scrubbed(c) ==
    IF c = <<>> THEN <<>>
    ELSE <<IF Head(c) = LoneSurrogate THEN Replacement ELSE Head(c)>> \o Scrubbed(Tail(c))

\* C14, amended: the round trip returns the string written with U+FFFD in the
\* place of each unpaired surrogate, so it returns C, or C followed by D,
\* for the strings without unpaired surrogates and for no other.
C14_RoundTripOfWellFormed ==
    [][Wrote =>
         /\ ReadsBack(Scrubbed(request'.args.content))
         /\ ReadsBack(request'.args.content) <=>
                Scrubbed(request'.args.content) = request'.args.content]_vars

\* "y" was appended to a file that held "x"
C14_Witness ==
    /\ request.method = "tools/call" /\ request.name = "write_file"
    /\ request.args.path = "/d/f" /\ request.args.content = <<"y">> /\ request.args.append
    /\ result.kind = "envelope" /\ result.success
    /\ fs["/d/f"] = File(<<"x", "y">>)

\* the bytes [from, to) of a file, positions counted from 0
Range(bytes, from, to) == [i \in 1..(IF to > from THEN to - from ELSE 0) |-> bytes[from + i]]

\* the range C15 names for the offset and the limit of a read of L bytes
RangeStart(offset) == IF offset = None THEN 0 ELSE offset[1]
RangeEnd(offset, limit, L) ==
    IF limit = None THEN L ELSE Min(RangeStart(offset) + limit[1], L)

\* C15: ranged read.  A read of a file of L bytes with an offset, a limit or
\* both, that meets no I/O error, succeeds and returns the bytes
\* [offset, min(offset+limit, L)) rendered in the requested encoding, with
\* offset 0 when only the limit is given and the end L when only the offset
\* is given; the content is empty when offset >= L.
C15_RangedRead ==
    [][(/\ CallsParsed("read_file")
        /\ IsFile(fs, request'.args.path)
        /\ (request'.args.offset # None \/ request'.args.limit # None)
        /\ result'.error # "EIO")
          => LET a == request'.args
                 bytes == Node(fs, a.path).content
                 from == Min(RangeStart(a.offset), Len(bytes))
                 to == RangeEnd(a.offset, a.limit, Len(bytes))
             IN  /\ result'.success
                 /\ result'.data.content = Render(Range(bytes, from, to), a.encoding)]_vars

----------------------------------------------------------------------------
(* The directory operations over every tree under /x *)

\* the paths of the trees that are listed and measured
DirPaths == {"/x", "/x/d", "/x/d/f", "/x/.h", "/x/.h/f"}

DirTrees ==
    {t \in {[p \in Paths |-> IF p \in DirPaths THEN u[p] ELSE Absent] :
              u \in [DirPaths -> {Absent, Dir, File(<<"x">>), File(<<"x", "y">>)}]} :
        WellFormed(t)}

InitDirs ==
    /\ fs \in DirTrees
    /\ watchers = <<>>
    /\ handles = <<>>
    /\ cache = EmptyMap
    /\ now = 0
    /\ request = [method |-> "none", name |-> "none", args |-> NoArgs]
    /\ result = NoResponse
    /\ oscalls = <<>>
    /\ sent = EmptyMap
    /\ proc = [status |-> "running", pending |-> "none"]
    /\ served = 0
    /\ inflight = <<>>

\* the depths of the schema up to the depth of the tree, and the type filters
Depths == {None, Some(1), Some(2), Some(3)}
TypeFilters == {None, Some({}), Some({"file"}), Some({"directory"})}

ListAnyDirectory ==
    /\ served < MaxDirRequests
    /\ ListDirectoryOf({Root, "/x"}, BOOLEAN, Depths, TypeFilters)

SizeAnyDirectory == served < MaxDirRequests /\ GetDirectorySizeOf({Root, "/x", "/x/d"})

NextDirs == ListAnyDirectory \/ SizeAnyDirectory

SpecDirs == InitDirs /\ [][NextDirs]_vars

\* the entries C16 names for the arguments a
Listed(f, a) ==
    {statsToFileInfo(f, q) :
        q \in {q \in Paths :
                 /\ Exists(f, q) /\ Under(q, a.path)
                 /\ IF ~a.recursive THEN DepthBelow(q, a.path) = 1
                    ELSE a.maxDepth = None \/ DepthBelow(q, a.path) <= a.maxDepth[1]
                 /\ a.includeHidden \/ ~HiddenBelow(q, a.path)
                 /\ a.fileTypes = None \/ TypeOf(f, q) \in a.fileTypes[1]}}

RECURSIVE SizeSum(_, _)
SizeSum(f, paths) ==
    IF paths = {} THEN 0
    ELSE LET q == CHOOSE q \in paths : TRUE IN Size(f, q) + SizeSum(f, paths \ {q})

\* C17: get_directory_size of a directory returns totalSize equal to the sum
\* of the sizes of the files at any depth beneath it, fileCount equal to the
\* number of those files and dirCount equal to the number of the directories
\* at any depth beneath it.
C17_DirectorySizeSums ==
    [][(CallsParsed("get_directory_size") /\ IsDir(fs, request'.args.path))
          => LET beneath == {q \in Paths : Exists(fs, q) /\ Under(q, request'.args.path)}
                 files == {q \in beneath : IsFile(fs, q)}
             IN  /\ result'.success
                 /\ result'.data.totalSize = SizeSum(fs, files)
                 /\ result'.data.fileCount = Cardinality(files)
                 /\ result'.data.dirCount = Cardinality(beneath \ files)]_vars

----------------------------------------------------------------------------
(* The text operations over every pair of short texts *)

Chars == {"x", "y", "\n"}

\* the texts of at most n characters
Texts(n) == UNION {[1..k -> Chars] : k \in 0..n}

\* /d/f holds a text of MaxShortText characters at most, /d/g one of MaxLongText
TextTrees ==
    {[p \in Paths |-> CASE p = "/d" -> Dir
                        [] p = "/d/f" -> File(short)
                        [] p = "/d/g" -> File(long)
                        [] OTHER -> Absent] :
        short \in Texts(MaxShortText), long \in Texts(MaxLongText)}

InitText ==
    /\ fs \in TextTrees
    /\ watchers = <<>>
    /\ handles = <<>>
    /\ cache = EmptyMap
    /\ now = 0
    /\ request = [method |-> "none", name |-> "none", args |-> NoArgs]
    /\ result = NoResponse
    /\ oscalls = <<>>
    /\ sent = EmptyMap
    /\ proc = [status |-> "running", pending |-> "none"]
    /\ served = 0
    /\ inflight = <<>>

CompareAnyFiles ==
    /\ served < MaxDirRequests
    /\ CompareFilesOf({"/d/f", "/d/g"}, {"/d/f", "/d/g"}, BOOLEAN)

\* the context sizes that reach past neither, one or both ends of a text
ContextSizes == {0, 1, 2}

SearchAnyFiles == served < MaxDirRequests /\ SearchInFilesOf({"x", "y"}, ContextSizes, {Root}, {None})

NextText == CompareAnyFiles \/ SearchAnyFiles

SpecText == InitText /\ [][NextText]_vars

\* the step is a comparison that succeeded
Compared == CallsParsed("compare_files") /\ result'.success

\* the text of a file of the tree before the step
TextOf(file) == Decode(Node(fs, file).content)

\* the text c2 is the text c1 with one line put before it
InsertsLine(c1, c2) ==
    /\ FirstLF(c2) # 0
    /\ SubSeq(c2, FirstLF(c2) + 1, Len(c2)) = c1

\* C18: diff positional law.  When file2 is file1 with one line inserted at
\* the start and file1 has N lines, a comparison without normalisation
\* reports N + 1 differences: a `modified` one at each of the positions 1..N
\* and an `added` one at position N + 1.
C18_DiffPositionalLaw ==
    [][(/\ Compared
        /\ ~request'.args.ignoreWhitespace
        /\ InsertsLine(TextOf(request'.args.file1), TextOf(request'.args.file2)))
          => LET N == Len(Split(TextOf(request'.args.file1)))
                 d == result'.data.differences
             IN  /\ Len(d) = N + 1
                 /\ \A i \in 1..N : d[i].line = i /\ d[i].type = "modified"
                 /\ d[N + 1].line = N + 1 /\ d[N + 1].type = "added"]_vars

\* the lines that are compared: the text, normalised if asked, split at the
\* line feeds
LinesOf(file, ignoreWhitespace) ==
    Split(IF ignoreWhitespace THEN Trim(Collapse(TextOf(file))) ELSE TextOf(file))

\* the differences report one of the given type at position i
Reports(d, i, type) == \E k \in 1..Len(d) : d[k].line = i /\ d[k].type = type

\* C19: a comparison reports identical with totalDifferences 0 exactly when
\* the two normalised line sequences have the same length and equal lines at
\* every index; a file compared with itself is identical; every index past
\* the end of the shorter file is reported as `added` when file2 is the
\* longer and as `removed` when file1 is, every mismatch at a shared index as
\* `modified`, and totalDifferences is the number of differences reported.
C19_IdenticalExactlyWhenEqual ==
    [][Compared =>
         LET a == request'.args
             lines1 == LinesOf(a.file1, a.ignoreWhitespace)
             lines2 == LinesOf(a.file2, a.ignoreWhitespace)
             shared == 1..Min(Len(lines1), Len(lines2))
             d == result'.data.differences
         IN  /\ (result'.data.identical /\ result'.data.totalDifferences = 0)
                    <=> lines1 = lines2
             /\ result'.data.identical <=> result'.data.totalDifferences = 0
             /\ a.file1 = a.file2 => result'.data.identical
             /\ \A i \in (Len(lines1) + 1)..Len(lines2) : Reports(d, i, "added")
             /\ \A i \in (Len(lines2) + 1)..Len(lines1) : Reports(d, i, "removed")
             /\ \A i \in shared : lines1[i] # lines2[i] => Reports(d, i, "modified")
             /\ result'.data.totalDifferences = Len(d)]_vars

\* the lines from..to of a file, counted from 0, joined with line feeds
RECURSIVE ContextBlock(_, _, _)
ContextBlock(lines, from, to) ==
    IF from > to THEN <<>>
    ELSE IF from = to THEN lines[from + 1]
    ELSE lines[from + 1] \o <<"\n">> \o ContextBlock(lines, from + 1, to)

\* the places of a one-character pattern in the lines of a file: the line
\* index from 0 and the offset in the line from 1
Occurrences(lines, pattern) ==
    {<<i, col>> \in (0..(Len(lines) - 1)) \X (1..MaxLongText) :
        col <= Len(lines[i + 1]) /\ lines[i + 1][col] = pattern}

\* C20: every match that a search reports was found on a line index i of a
\* file with lines 0..last: its line is i + 1, its column the 1-based offset
\* of the match in that line, and its context the lines
\* max(0, i - contextLines) .. min(last, i + contextLines) joined with line
\* feeds, which holds the matching line and nothing outside the file;
\* totalMatches is the sum of the match counts of the files returned, and
\* every file returned has a match.
C20_SearchMatchLaw ==
    [][(CallsParsed("search_in_files") /\ result'.success) =>
         LET a == request'.args
             data == result'.data
         IN  /\ \A r \in data.results :
                   LET lines == Split(TextOf(r.path))
                       last == Len(lines) - 1
                   IN  /\ Len(r.matches) >= 1
                       /\ Len(r.matches) = Cardinality(Occurrences(lines, a.pattern))
                       /\ \A k \in 1..Len(r.matches) :
                             LET m == r.matches[k]
                                 i == m.line - 1
                             IN  /\ <<i, m.column>> \in Occurrences(lines, a.pattern)
                                 /\ m.context =
                                       ContextBlock(lines, Max(0, i - a.contextLines),
                                                    Min(last, i + a.contextLines))
             /\ data.totalMatches = SumMatches(data.results)]_vars

\* a search with two lines of context found "x" on the second of the three
\* lines of /d/g: the context is the whole file and no more
C20_Witness ==
    /\ request.method = "tools/call" /\ request.name = "search_in_files"
    /\ request.args.pattern = "x" /\ request.args.contextLines = 2
    /\ fs["/d/g"] = File(<<"y", "\n", "x", "\n">>)
    /\ result.kind = "envelope" /\ result.success
    /\ \E r \in result.data.results :
          /\ r.path = "/d/g"
          /\ r.matches = <<[line |-> 2, column |-> 1, text |-> "x",
                            context |-> <<"y", "\n", "x", "\n">>]>>

----------------------------------------------------------------------------
(* Archives: archive_files and extract_archive from every tree over the tool
   paths, with one or two inputs and the archive at /d/g *)

FileLists == {<<"/d/f">>, <<"/d">>, <<"/d", "/d/f">>, <<"/d/f", "/d">>}

ArchiveAnyFiles == served < MaxFileRequests /\ ArchiveFilesOf(FileLists, {"/d/g"})
ExtractAnyArchive == served < MaxFileRequests /\ ExtractArchiveOf({"/d/g"}, {"/x"})

NextArchive == ArchiveAnyFiles \/ ExtractAnyArchive

SpecArchive == InitFiles /\ [][NextArchive]_vars

\* the file system calls of the last request
CallsMade == {oscalls[i] : i \in 1..Len(oscalls)}

\* C21: archiveFiles fails fast.  When an input path does not exist the call
\* is answered with a failure, the probing of the inputs ends before the
\* output stream is opened, and the tree is as it was: nothing is created or
\* truncated at archivePath, and a file that was there keeps its content.
C21_ArchiveFailsFast ==
    [][(CallsParsed("archive_files")
          /\ \E i \in 1..Len(request'.args.files) : ~Exists(fs, request'.args.files[i]))
         => /\ IsFailure(result')
            /\ fs' = fs
            /\ \A i \in 1..Len(oscalls') : oscalls'[i] = "access"]_vars

\* an archive of a directory and of a missing file onto an existing file was
\* refused after the second probe
C21_Witness ==
    /\ request = ToolCall("archive_files", [files |-> <<"/d", "/d/f">>, archivePath |-> "/d/g"])
    /\ IsFailure(result)
    /\ oscalls = <<"access", "access">>
    /\ ~Exists(fs, "/d/f") /\ fs["/d/g"] = File(<<"x">>)

\* C22: archive / extract round trip.  An archive_files of one regular file f
\* that succeeds reports filesCount equal to the number of inputs, and an
\* extract_archive of that archive into dest then succeeds and leaves the
\* file dest/basename(f) with the content of f.
C22_ArchiveExtractRoundTrip ==
    [][(CallsParsed("archive_files") /\ result'.kind = "envelope" /\ result'.success)
         => LET files == request'.args.files
                x == extractArchive(fs', request'.args.archivePath, "/x", "none")
            IN  /\ result'.data.filesCount = Len(files)
                /\ (Len(files) = 1 /\ IsFile(fs, files[1]))
                      => /\ x.res.kind = "envelope" /\ x.res.success
                         /\ x.fs[Join("/x", Name(files[1]))] = fs[files[1]]]_vars

----------------------------------------------------------------------------
(* Depth limits: search_in_files and find_files in /x, over trees with files
   one and two levels below it *)

DepthTrees ==
    {t \in {[p \in Paths |-> IF p = "/x" THEN Dir
                             ELSE IF p \in {"/x/f", "/x/d", "/x/d/f"} THEN u[p] ELSE Absent] :
              u \in [{"/x/f", "/x/d", "/x/d/f"} -> {Absent, Dir, File(<<"x">>), File(<<"y">>)}]} :
        /\ WellFormed(t)
        /\ t["/x/f"].kind # "dir" /\ t["/x/d"].kind # "file" /\ t["/x/d/f"].kind # "dir"}

InitDepth ==
    /\ fs \in DepthTrees
    /\ watchers = <<>>
    /\ handles = <<>>
    /\ cache = EmptyMap
    /\ now = 0
    /\ request = [method |-> "none", name |-> "none", args |-> NoArgs]
    /\ result = NoResponse
    /\ oscalls = <<>>
    /\ sent = EmptyMap
    /\ proc = [status |-> "running", pending |-> "none"]
    /\ served = 0
    /\ inflight = <<>>

MaxDepths == {None, Some(1), Some(2)}

SearchToDepth ==
    served < MaxDirRequests /\ SearchInFilesOf({"x", "y"}, {2}, {"/x"}, MaxDepths)
FindToDepth ==
    served < MaxDirRequests /\ FindFilesOf({Star, Globstar}, {"/x"}, MaxDepths)

NextDepth == SearchToDepth \/ FindToDepth

SpecDepth == InitDepth /\ [][NextDepth]_vars

\* the results of the same search without a depth limit, in the tree before
\* the step
Unlimited == searchInFiles(fs, [request'.args EXCEPT !.maxDepth = None], "none").res.data.results

\* C23: maxDepth is an upper bound on the search depth.  A search_in_files
\* with maxDepth d that succeeds returns the matches of exactly the files that
\* lie at most d levels below the directory (none of a deeper file, and those
\* of every file at the levels 1..d), and a find_files with maxDepth d that
\* succeeds returns no entry that lies more than d levels below the directory.
C23_MaxDepthBounds ==
    [][/\ (CallsParsed("search_in_files") /\ request'.args.maxDepth # None /\ result'.success)
            => result'.data.results =
                  {r \in Unlimited :
                      DepthBelow(r.path, request'.args.directory) <= request'.args.maxDepth[1]}
       /\ (CallsParsed("find_files") /\ request'.args.maxDepth # None /\ result'.success)
            => \A i \in result'.data.files :
                  DepthBelow(i.path, request'.args.directory) <= request'.args.maxDepth[1]]_vars

----------------------------------------------------------------------------
(* Views: the tree-structure and content-preview resources, fetched once from
   trees under /x and from /d/f holding nothing, text, or bytes that are not
   utf8 *)

PreviewTrees ==
    {[p \in Paths |-> CASE p = "/d" -> Dir
                        [] p = "/d/f" -> n
                        [] OTHER -> Absent] :
        n \in {Absent, Dir, File(<<>>), File(<<"x">>), File(<<"x", "y">>), File(<<"EF">>)}}

InitViews ==
    /\ fs \in DirTrees \cup PreviewTrees
    /\ watchers = <<>>
    /\ handles = <<>>
    /\ cache = EmptyMap
    /\ now = 0
    /\ request = [method |-> "none", name |-> "none", args |-> NoArgs]
    /\ result = NoResponse
    /\ oscalls = <<>>
    /\ sent = EmptyMap
    /\ proc = [status |-> "running", pending |-> "none"]
    /\ served = 0
    /\ inflight = <<>>

StructureUris == {[kind |-> "structure", arg |-> p] : p \in {"/x", "/x/d", "/d"}}
PreviewUris == {[kind |-> "preview", arg |-> p] : p \in {"/d/f", "/d", "/d/g"}}

ReadStructure == served < MaxDirRequests /\ ReadResourceOf(StructureUris)
ReadPreview == served < MaxDirRequests /\ ReadResourceOf(PreviewUris)

NextViews == ReadStructure \/ ReadPreview

SpecViews == InitViews /\ [][NextViews]_vars

\* the step is a fetch of a URI of the kind that the cache does not answer
Computes(kind) ==
    /\ served' = served + 1
    /\ request'.method = "resources/read" /\ request'.name = kind
    /\ ~result'.data.cached

\* the number of elements of a set of paths, and the sum of their sizes
RECURSIVE SumOfSizes(_, _)
SumOfSizes(f, ps) ==
    IF ps = {} THEN 0
    ELSE LET q == CHOOSE x \in ps : TRUE IN Size(f, q) + SumOfSizes(f, ps \ {q})

Binary(bytes) == Encode(Decode(bytes)) # bytes

\* C25: a content-preview fetch never fails.  For a directory, a path that
\* does not exist, a file that cannot be read or a binary file the payload
\* has canPreview false; for every regular text file that can be read, an
\* empty one included, it has canPreview true and as preview the first 500
\* characters of the decoding of the first 1024 bytes of the file.
C25_PreviewNeverFails ==
    [][Computes("preview")
          => LET p == request'.args.arg
                 v == result'.data.body
                 head == Decode(Slice(fs[p].content, Some(0), Some(PreviewBytes)))
             IN  /\ result'.kind = "resource"
                 /\ (~IsFile(fs, p) \/ v.type = "unknown") => ~v.canPreview
                 /\ (IsFile(fs, p) /\ v.type = "file" /\ Binary(fs[p].content)) => ~v.canPreview
                 /\ (IsFile(fs, p) /\ v.type = "file" /\ ~Binary(fs[p].content))
                       => /\ v.canPreview
                          /\ v.preview = SubSeq(head, 1, Min(PreviewChars, Len(head)))]_vars

----------------------------------------------------------------------------
(* The watcher registry under concurrent calls.  A call runs from one await
   to the next without interruption, and the calls suspended at an await are
   in inflight.  The event loop is the one of Node.js: the continuations of a
   promise that has settled are queued as microtasks in the order in which
   they were registered, and the queue is drained before the next request or
   I/O completion is taken up.  inflight is kept in the order in which the
   calls reached their await, so the microtask queue is the calls in inflight
   whose await has settled, in that order.  watcher.close() marks the watcher
   closed when it is first called and hands every caller the same promise,
   which resolves later; every close succeeds here. *)

MaxCalls == 4

RacePaths == {"/d/f"}

\* the position in the registry of the entry of a key
IndexOf(w, k) == CHOOSE i \in 1..Len(w) : w[i].key = k

\* a live Map iterator over a registry an entry of which is deleted: the
\* iterators that have passed the entry move back by one
Deleted(calls, w, k) ==
    IF ~MapHas(w, k) THEN calls
    ELSE [i \in 1..Len(calls) |->
            IF calls[i].op = "cleanup" /\ calls[i].pos >= IndexOf(w, k)
            THEN [calls[i] EXCEPT !.pos = @ - 1] ELSE calls[i]]

Without(calls, i) == SubSeq(calls, 1, i - 1) \o SubSeq(calls, i + 1, Len(calls))

\* the call at position i reaches an await as c
Awaits(calls, i, c) == Append(Without(calls, i), c)

Suspended(op, path, pc, h) == [op |-> op, path |-> path, pc |-> pc, h |-> h, pos |-> 0]

\* the continuation of the call is in the microtask queue
Queued(c) == c.pc \in {"woken", "stopped"}

\* no microtask is queued: the event loop takes up the next request or I/O
\* completion
Idle == \A i \in 1..Len(inflight) : ~Queued(inflight[i])

\* the call at position i is the head of the microtask queue
Runs(i) == Queued(inflight[i]) /\ \A j \in 1..(i - 1) : ~Queued(inflight[j])

\* where an await of watcher.close() of the watcher h leaves the caller: in
\* the microtask queue when the close promise has resolved already, waiting
\* for it otherwise
AwaitClose(h) ==
    IF /\ handles[h].state = "closed"
       /\ \A j \in 1..Len(inflight) : ~(inflight[j].pc = "closing" /\ inflight[j].h = h)
    THEN "woken" ELSE "closing"

\* a call of the registry returns: the response goes out
Returns(req, res) ==
    /\ request' = req
    /\ result' = res
    /\ oscalls' = <<>>

\* watch_file is dispatched: the schema is parsed and fs.access(path) awaited
WatchCalled ==
    \E path \in RacePaths :
        /\ Running /\ served < MaxCalls /\ Idle
        /\ served' = served + 1
        /\ inflight' = Append(inflight, Suspended("watch", path, "access", 0))
        /\ UNCHANGED <<fs, watchers, handles, cache, now, request, result, oscalls, sent, proc>>

\* fs.access has settled.  With no watcher registered for the path the rest of
\* watchFile runs to its return; with one, stopWatching is entered, which
\* reads the registry, calls close() and awaits it
WatchProbed ==
    \E i \in 1..Len(inflight) :
        LET c == inflight[i]
            req == ToolCall("watch_file", [path |-> c.path, recursive |-> FALSE])
        IN  /\ c.op = "watch" /\ c.pc = "access" /\ Idle
            /\ IF ~Exists(fs, c.path)
               THEN /\ Returns(req, Fail(c.path, "ENOENT"))
                    /\ inflight' = Without(inflight, i)
                    /\ UNCHANGED <<watchers, handles>>
               ELSE IF MapHas(watchers, c.path)
               THEN LET h == MapGet(watchers, c.path) IN
                    /\ handles' = Closed(handles, h, TRUE)
                    /\ inflight' = Awaits(inflight, i, [c EXCEPT !.pc = AwaitClose(h), !.h = h])
                    /\ UNCHANGED <<watchers, request, result, oscalls>>
               ELSE LET out == watchFile(fs, watchers, handles,
                                         [path |-> c.path, recursive |-> FALSE], TRUE)
                    IN  /\ watchers' = out.watchers
                        /\ handles' = out.handles
                        /\ Returns(req, out.res)
                        /\ inflight' = Without(inflight, i)
            /\ UNCHANGED <<fs, cache, now, sent, proc, served>>

\* the close promise of a watcher resolves: the continuations of the calls
\* that await it are queued, in the order of their awaits
CloseSettled ==
    \E h \in 1..Len(handles) :
        /\ Idle
        /\ \E i \in 1..Len(inflight) : inflight[i].pc = "closing" /\ inflight[i].h = h
        /\ inflight' = [i \in 1..Len(inflight) |->
                           IF inflight[i].pc = "closing" /\ inflight[i].h = h
                           THEN [inflight[i] EXCEPT !.pc = "woken"] ELSE inflight[i]]
        /\ UNCHANGED <<fs, watchers, handles, cache, now, request, result, oscalls, sent, proc,
                       served>>

\* the continuation of the stopWatching inside watchFile: it deletes the entry
\* of the path and returns, which queues the continuation of watchFile
WatchStopped ==
    \E i \in 1..Len(inflight) :
        LET c == inflight[i] IN
        /\ c.op = "watch" /\ c.pc = "woken" /\ Runs(i)
        /\ watchers' = MapDelete(watchers, c.path)
        /\ inflight' = Awaits(Deleted(inflight, watchers, c.path), i, [c EXCEPT !.pc = "stopped"])
        /\ UNCHANGED <<fs, handles, cache, now, request, result, oscalls, sent, proc, served>>

\* the continuation of watchFile after its await of stopWatching: chokidar.watch
\* opens a watcher and watchers.set registers it
WatchResumed ==
    \E i \in 1..Len(inflight) :
        LET c == inflight[i]
            id == Len(handles) + 1
            watcher == [path |-> c.path, recursive |-> FALSE, state |-> "open",
                        closes |-> 0, events |-> <<>>]
        IN  /\ c.op = "watch" /\ c.pc = "stopped" /\ Runs(i)
            /\ handles' = Append(handles, watcher)
            /\ watchers' = MapSet(watchers, c.path, id)
            /\ Returns(ToolCall("watch_file", [path |-> c.path, recursive |-> FALSE]),
                       Ok(c.path, [watching |-> TRUE, recursive |-> FALSE, events |-> <<>>]))
            /\ inflight' = Without(inflight, i)
            /\ UNCHANGED <<fs, cache, now, sent, proc, served>>

\* stop_watching is dispatched: without a watcher for the path it returns at
\* once, with one it calls close() and awaits it
StopCalled ==
    \E path \in RacePaths :
        /\ Running /\ served < MaxCalls /\ Idle
        /\ served' = served + 1
        /\ IF MapHas(watchers, path)
           THEN LET h == MapGet(watchers, path) IN
                /\ handles' = Closed(handles, h, TRUE)
                /\ inflight' = Append(inflight, Suspended("stop", path, AwaitClose(h), h))
                /\ UNCHANGED <<request, result, oscalls>>
           ELSE /\ Returns(ToolCall("stop_watching", [path |-> path]),
                           Fail(path, "Watcher not found"))
                /\ UNCHANGED <<handles, inflight>>
        /\ UNCHANGED <<fs, watchers, cache, now, sent, proc>>

\* the continuation of stopWatching: the entry of the path is deleted,
\* whatever watcher it holds by now
StopClosed ==
    \E i \in 1..Len(inflight) :
        LET c == inflight[i] IN
        /\ c.op = "stop" /\ c.pc = "woken" /\ Runs(i)
        /\ watchers' = MapDelete(watchers, c.path)
        /\ inflight' = Without(Deleted(inflight, watchers, c.path), i)
        /\ Returns(ToolCall("stop_watching", [path |-> c.path]),
                   Ok(c.path, [watching |-> FALSE]))
        /\ UNCHANGED <<fs, handles, cache, now, sent, proc, served>>

\* cleanup() is called: it closes the first watcher of the registry and awaits
\* the close, or clears a registry that is empty
CleanupCalled ==
    /\ Running /\ served < MaxCalls /\ Idle
    /\ served' = served + 1
    /\ IF watchers = <<>>
       THEN UNCHANGED <<handles, inflight>>
       ELSE LET h == watchers[1].value IN
            /\ handles' = Closed(handles, h, TRUE)
            /\ inflight' = Append(inflight, [Suspended("cleanup", Root, AwaitClose(h), h)
                                                EXCEPT !.pos = 1])
    /\ UNCHANGED <<fs, watchers, cache, now, request, result, oscalls, sent, proc>>

\* the continuation of cleanup: the loop goes on to the next entry the
\* registry has by now, and clears the registry after the last
CleanupClosed ==
    \E i \in 1..Len(inflight) :
        LET c == inflight[i] IN
        /\ c.op = "cleanup" /\ c.pc = "woken" /\ Runs(i)
        /\ IF c.pos + 1 <= Len(watchers)
           THEN LET h == watchers[c.pos + 1].value IN
                /\ handles' = Closed(handles, h, TRUE)
                /\ inflight' = Awaits(inflight, i, [c EXCEPT !.pos = c.pos + 1, !.h = h,
                                                            !.pc = AwaitClose(h)])
                /\ UNCHANGED watchers
           ELSE /\ watchers' = <<>>
                /\ inflight' = Without(inflight, i)
                /\ UNCHANGED handles
        /\ UNCHANGED <<fs, cache, now, request, result, oscalls, sent, proc, served>>

NextRace ==
    \/ WatchCalled \/ WatchProbed \/ WatchStopped \/ WatchResumed
    \/ StopCalled \/ StopClosed
    \/ CleanupCalled \/ CleanupClosed
    \/ CloseSettled

SpecRace == Init /\ [][NextRace]_vars

\* C26: under every interleaving of concurrent watch, stop and cleanup calls
\* at their awaits the registry owns the open watchers: every watcher that
\* was opened and not closed is the value the registry holds under its path,
\* so there is at most one open watcher per path and none is left open after
\* its entry was removed or overwritten.
C26_RegistryOwnsOpenHandles ==
    \A id \in 1..Len(handles) :
        handles[id].state = "open"
            => MapHas(watchers, handles[id].path) /\ MapGet(watchers, handles[id].path) = id

----------------------------------------------------------------------------
(* Resource fetches under concurrency.  The ReadResource handler looks the
   key up, and on a miss awaits the operation that computes the payload; the
   handler is resumed when the operation has settled, and stores and answers
   without looking the key up again.  The operation reads the tree at some
   instant of the await, which is the instant the step of the resumption is
   taken at. *)

RaceUris == {[kind |-> "metadata", arg |-> "/d/f"], [kind |-> "preview", arg |-> "/d/f"]}

\* a fetch is dispatched: a hit is answered at once, a miss awaits the operation
FetchCalled ==
    \E u \in RaceUris :
        LET got == getCachedData(cache, KeyOf(u), now)
            r == readResource(fs, cache, u.kind, u.arg, now, "none")
        IN  /\ Running /\ served < MaxCalls
            /\ served' = served + 1
            /\ IF got.data = Null
               THEN /\ cache' = got.cache
                    /\ inflight' = Append(inflight, [op |-> "fetch", uri |-> u, pc |-> "computing"])
                    /\ UNCHANGED <<request, result, oscalls, sent>>
               ELSE /\ cache' = r.cache
                    /\ request' = [method |-> "resources/read", name |-> u.kind, args |-> u]
                    /\ result' = [kind |-> "resource", data |-> r.data]
                    /\ sent' = [v \in DOMAIN sent \cup {u} |-> IF v = u THEN r.data ELSE sent[v]]
                    /\ oscalls' = r.calls
                    /\ UNCHANGED inflight
            /\ UNCHANGED <<fs, watchers, handles, now, proc>>

\* the operation a miss awaits has settled: the payload is built, stored and sent
FetchResumed ==
    \E i \in 1..Len(inflight), fault \in Faults :
        LET u == inflight[i].uri
            r == recompute(fs, cache, u.kind, u.arg, now, fault)
        IN  /\ inflight[i].op = "fetch"
            /\ cache' = r.cache
            /\ request' = [method |-> "resources/read", name |-> u.kind, args |-> u]
            /\ result' = [kind |-> "resource", data |-> r.data]
            /\ sent' = [v \in DOMAIN sent \cup {u} |-> IF v = u THEN r.data ELSE sent[v]]
            /\ oscalls' = r.calls
            /\ inflight' = Without(inflight, i)
            /\ UNCHANGED <<fs, watchers, handles, now, proc, served>>

\* a tool call that changes what the fetches compute
EmptyFile == WriteFileOf({"/d/f"}, {<<>>}) /\ UNCHANGED inflight

NextFetch == FetchCalled \/ FetchResumed \/ EmptyFile \/ Tick

SpecFetch == Init /\ [][NextFetch]_vars

\* the step resumes a fetch that missed
Resumes == Len(inflight') < Len(inflight) /\ request'.method = "resources/read"

\* the step dispatches a fetch of the URI, as a hit or as a miss
HitOf(u) ==
    /\ served' = served + 1 /\ inflight' = inflight
    /\ request'.method = "resources/read" /\ request'.args = u
MissOf(u) ==
    /\ Len(inflight') > Len(inflight)
    /\ inflight'[Len(inflight')].uri = u

\* the payload served last for the URI is no older than the TTL
Servable(u) == u \in DOMAIN sent /\ now - sent[u].timestamp <= TtlOf(u.kind)

\* C27: fetches of one key that miss and interleave at the await of the
\* recomputation each recompute and each store.  Every resumed fetch answers
\* with cached = false and the payload it computed itself, and leaves that
\* payload as the entry of the key, so the entry is the one written last; a
\* later fetch within the TTL of it is a hit answered with that very payload
\* and cached = true, never with a mix of two computations.
C27_LastWriteWins ==
    [][\A u \in RaceUris :
          /\ (Resumes /\ request'.args = u)
                => /\ ~result'.data.cached
                   /\ result'.data.timestamp = now
                   /\ \E fault \in Faults : result'.data.body = Fresh(fs, u.kind, u.arg, fault).value
                   /\ cache'[KeyOf(u)].data = result'.data
                   /\ sent'[u] = result'.data
          /\ HitOf(u) => Servable(u) /\ result'.data = [sent[u] EXCEPT !.cached = TRUE]
          /\ MissOf(u) => ~Servable(u)]_vars

\* a fetch is suspended in its recomputation while the entry of its key,
\* stored by a fetch that missed together with it, is within its TTL, and the
\* payload stored is not the one the suspended fetch will compute
C27_Witness ==
    \E i \in 1..Len(inflight) :
        LET u == inflight[i].uri IN
        /\ KeyOf(u) \in DOMAIN cache
        /\ now - cache[KeyOf(u)].timestamp <= cache[KeyOf(u)].ttl
        /\ request.method = "resources/read" /\ request.args = u
        /\ ~result.data.cached /\ cache[KeyOf(u)].data = result.data
        /\ result.data.body # Fresh(fs, u.kind, u.arg, "none").value

----------------------------------------------------------------------------
(* Copies and moves under concurrency.  copyFile and moveFile check the source
   and the destination, and from the next await on create the parent and copy
   or rename; a call is suspended between the two.  The awaits of the checks
   and those of the second part are taken together, which leaves out
   interleavings and adds none. *)

TreeTwo ==
    [p \in Paths |-> CASE p = "/d" -> Dir
                       [] p = "/d/f" -> File(<<"x">>)
                       [] p = "/d/g" -> File(<<"y">>)
                       [] OTHER -> Absent]

InitCopy ==
    /\ fs = TreeTwo
    /\ watchers = <<>>
    /\ handles = <<>>
    /\ cache = EmptyMap
    /\ now = 0
    /\ request = [method |-> "none", name |-> "none", args |-> NoArgs]
    /\ result = NoResponse
    /\ oscalls = <<>>
    /\ sent = EmptyMap
    /\ proc = [status |-> "running", pending |-> "none"]
    /\ served = 0
    /\ inflight = <<>>

\* copy_file or move_file with overwrite false is dispatched: the source and
\* the destination are probed; a missing source or a destination that exists
\* ends the call, otherwise it goes on at the next await
TransferCalled(op) ==
    \E source \in {"/d/f", "/d/g"}, destination \in {"/x/f"} :
        LET a == [source |-> source, destination |-> destination, overwrite |-> FALSE]
            req == ToolCall(IF op = "copy" THEN "copy_file" ELSE "move_file", a)
        IN  /\ served' = served + 1
            /\ IF ~Exists(fs, source)
               THEN /\ request' = req /\ result' = Fail(destination, "ENOENT")
                    /\ oscalls' = <<"access">>
                    /\ UNCHANGED inflight
               ELSE IF Exists(fs, destination)
               THEN /\ request' = req /\ result' = Fail(destination, "File exists")
                    /\ oscalls' = <<"access", "access">>
                    /\ UNCHANGED inflight
               ELSE /\ inflight' = Append(inflight, [op |-> op, args |-> a, pc |-> "checked"])
                    /\ UNCHANGED <<request, result, oscalls>>
            /\ UNCHANGED <<fs, watchers, handles, cache, now, sent, proc>>

CopyCalled == Running /\ served < MaxCalls /\ TransferCalled("copy")
MoveCalled == Running /\ served < MaxCalls /\ TransferCalled("move")

\* a copy that passed its checks goes on: mkdir, copyFile, stat, utimes, stat
CopyResumed ==
    \E i \in 1..Len(inflight), fault \in Faults :
        LET out == copyChecked(fs, inflight[i].args, fault) IN
        /\ inflight[i].op = "copy"
        /\ request' = ToolCall("copy_file", inflight[i].args)
        /\ result' = out.res
        /\ fs' = out.fs
        /\ oscalls' = <<"access", "access">> \o out.calls
        /\ inflight' = Without(inflight, i)
        /\ UNCHANGED <<watchers, handles, cache, now, sent, proc, served>>

\* a move that passed its checks goes on: mkdir, rename, stat
MoveResumed ==
    \E i \in 1..Len(inflight), fault \in Faults :
        LET out == moveChecked(fs, inflight[i].args, fault) IN
        /\ inflight[i].op = "move"
        /\ request' = ToolCall("move_file", inflight[i].args)
        /\ result' = out.res
        /\ fs' = out.fs
        /\ oscalls' = <<"access", "access">> \o out.calls
        /\ inflight' = Without(inflight, i)
        /\ UNCHANGED <<watchers, handles, cache, now, sent, proc, served>>

NextCopy == CopyCalled \/ MoveCalled \/ CopyResumed \/ MoveResumed

SpecCopy == InitCopy /\ [][NextCopy]_vars

\* the step resumes a copy or a move that found its destination absent
Transfers ==
    /\ Len(inflight') < Len(inflight)
    /\ request'.name \in {"copy_file", "move_file"}
    /\ ~request'.args.overwrite

\* C28: the check of the destination is not atomic with the copy or the
\* rename.  A copy or a move with overwrite false that found its destination
\* absent, and resumes when another call has created the destination in the
\* meantime, is not refused: unless the copy or rename itself meets an I/O
\* error it returns success and replaces the content the other call wrote
\* with the content of its own source.  So of two concurrent calls to one
\* absent destination both can succeed, the second replacing the first.
C28_CheckIsNotAtomic ==
    [][(Transfers /\ IsFile(fs, request'.args.source) /\ IsFile(fs, request'.args.destination))
          => \/ result'.error \in {"EIO", "EXDEV"} /\ fs' = fs
             \/ /\ result'.success
                /\ fs'[request'.args.destination] = fs[request'.args.source]]_vars

\* two moves with overwrite false of /d/f and of /d/g to /x/f have both
\* succeeded: both sources are gone, and the destination holds the content of
\* /d/g alone
C28_Witness ==
    /\ request = ToolCall("move_file",
                          [source |-> "/d/g", destination |-> "/x/f", overwrite |-> FALSE])
    /\ result.kind = "envelope" /\ result.success
    /\ ~Exists(fs, "/d/f") /\ ~Exists(fs, "/d/g")
    /\ fs["/x/f"] = File(<<"y">>)

----------------------------------------------------------------------------
(* The search loop, one regex.exec at a time.  The regex has the flag g, so
   exec starts at regex.lastIndex and leaves the end of the match there; the
   loop of searchInFiles calls exec on a line until it returns null. *)

MaxMatches == 3

\* a pattern that matches any run of "x", the empty one included
StarPattern == "x*"

\* the length of the run of c in line from the 0-based index k on
RECURSIVE RunOf(_, _, _)
RunOf(line, k, c) ==
    IF k < Len(line) /\ line[k + 1] = c THEN 1 + RunOf(line, k + 1, c) ELSE 0

\* regex.exec(line) for a regex with the flag g: the match found from
\* lastIndex on and the lastIndex it leaves, or null with lastIndex reset
exec(pattern, line, lastIndex) ==
    IF lastIndex > Len(line) THEN [found |-> FALSE, lastIndex |-> 0]
    ELSE IF pattern = StarPattern
         THEN [found |-> TRUE, index |-> lastIndex,
               lastIndex |-> lastIndex + RunOf(line, lastIndex, "x")]
    ELSE IF \E k \in lastIndex..(Len(line) - 1) : line[k + 1] = pattern
         THEN LET k == CHOOSE k \in lastIndex..(Len(line) - 1) :
                          /\ line[k + 1] = pattern
                          /\ \A j \in lastIndex..(k - 1) : line[j + 1] # pattern
              IN  [found |-> TRUE, index |-> k, lastIndex |-> k + 1]
    ELSE [found |-> FALSE, lastIndex |-> 0]

LoopTrees ==
    {[p \in Paths |-> CASE p = "/d" -> Dir
                        [] p = "/d/f" -> File(t)
                        [] p = "/d/g" -> g
                        [] OTHER -> Absent] :
        t \in Texts(MaxShortText), g \in {Absent, File(<<"x">>)}}

InitLoop ==
    /\ fs \in LoopTrees
    /\ watchers = <<>>
    /\ handles = <<>>
    /\ cache = EmptyMap
    /\ now = 0
    /\ request = [method |-> "none", name |-> "none", args |-> NoArgs]
    /\ result = NoResponse
    /\ oscalls = <<>>
    /\ sent = EmptyMap
    /\ proc = [status |-> "running", pending |-> "none"]
    /\ served = 0
    /\ inflight = <<>>

\* the arguments of the searches of /d
SearchArgs(pattern) ==
    [pattern |-> pattern, directory |-> "/d", maxDepth |-> None, includeHidden |-> FALSE,
     contextLines |-> 2]

\* search_in_files is dispatched: the schema is parsed, the files are globbed
\* and the regex is built; the loop over the files begins
SearchCalled ==
    \E pattern \in {"x", StarPattern, BadPattern} :
        /\ Running /\ served < MaxDirRequests /\ inflight = <<>>
        /\ served' = served + 1
        /\ request' = ToolCall("search_in_files", SearchArgs(pattern))
        /\ IF pattern = BadPattern
           THEN /\ result' = searchInFiles(fs, SearchArgs(pattern), "none").res
                /\ oscalls' = <<"glob">>
                /\ UNCHANGED inflight
           ELSE /\ inflight' = <<[op |-> "search", pattern |-> pattern,
                                  todo |-> {q \in Glob(fs, Globstar, "/d", FALSE) : IsFile(fs, q)},
                                  lines |-> <<>>, i |-> 0, lastIndex |-> 0, matches |-> 0]>>
                /\ result' = NoResponse
                /\ oscalls' = <<"glob">>
        /\ UNCHANGED <<fs, watchers, handles, cache, now, sent, proc>>

\* the loop over the files takes the next file: getFileInfo, readFile, split
SearchNextFile ==
    /\ inflight # <<>>
    /\ LET c == inflight[1]
           file == CHOOSE q \in c.todo : TRUE
       IN  /\ c.i >= Len(c.lines) /\ c.todo # {}
           /\ inflight' = <<[c EXCEPT !.todo = @ \ {file},
                                      !.lines = Split(Decode(Node(fs, file).content)),
                                      !.i = 0, !.lastIndex = 0]>>
    /\ UNCHANGED <<fs, watchers, handles, cache, now, request, result, oscalls, sent, proc, served>>

\* one pass of the loop over the lines: an empty line is skipped, otherwise
\* regex.exec(line) is called; a match is pushed and exec called again, null
\* ends the line.  The array of matches is unbounded in the code and counted
\* up to MaxMatches here: a pass that finds a match with the count at
\* MaxMatches and lastIndex unmoved is a pass of the code's loop that leaves
\* the state of the model as it is.
SearchExec ==
    /\ inflight # <<>>
    /\ LET c == inflight[1]
           line == c.lines[c.i + 1]
           m == exec(c.pattern, line, c.lastIndex)
       IN  /\ c.i < Len(c.lines)
           /\ inflight' =
                 <<IF line = <<>> THEN [c EXCEPT !.i = @ + 1]
                   ELSE IF m.found
                        THEN [c EXCEPT !.lastIndex = m.lastIndex,
                                       !.matches = Min(@ + 1, MaxMatches)]
                   ELSE [c EXCEPT !.lastIndex = 0, !.i = @ + 1]>>
    /\ UNCHANGED <<fs, watchers, handles, cache, now, request, result, oscalls, sent, proc, served>>

\* the loops are over: the envelope is returned
SearchReturned ==
    /\ inflight # <<>>
    /\ inflight[1].i >= Len(inflight[1].lines) /\ inflight[1].todo = {}
    /\ result' = searchInFiles(fs, request.args, "none").res
    /\ oscalls' = <<"glob", "stat", "readFile">>
    /\ inflight' = <<>>
    /\ UNCHANGED <<fs, watchers, handles, cache, now, request, sent, proc, served>>

NextLoop == SearchCalled \/ SearchNextFile \/ SearchExec \/ SearchReturned

\* a search that can take a step takes it: nothing else runs on the thread
SpecLoop ==
    /\ InitLoop /\ [][NextLoop]_vars
    /\ WF_vars(SearchNextFile) /\ WF_vars(SearchExec) /\ WF_vars(SearchReturned)

\* C29: searchInFiles terminates.  A search that was dispatched with a valid
\* pattern eventually returns an envelope, success or failure, whatever the
\* files hold, also for a pattern that can match the empty string on a line
\* that is not empty.
C29_SearchTerminates == (inflight # <<>>) ~> (inflight = <<>> /\ result.kind = "envelope")

----------------------------------------------------------------------------
(* Stale reads: resource fetches between tool calls that change the tree *)

StaleUris ==
    {[kind |-> "metadata", arg |-> "/d/f"], [kind |-> "metadata", arg |-> "/d/g"],
     [kind |-> "directory", arg |-> "/d"]}

MaxStaleRequests == 3

FetchStale == served < MaxStaleRequests /\ ReadResourceOf(StaleUris)
WriteNew == served < MaxStaleRequests /\ WriteFileOf({"/d/g"}, {<<"x">>})
CopyNew == served < MaxStaleRequests /\ CopyFileOf({"/d/f"}, {"/d/g"})
MoveNew == served < MaxStaleRequests /\ MoveFileOf({"/d/f"}, {"/d/g"})
DeleteOld == served < MaxStaleRequests /\ DeleteFileOf({"/d/f"})
MakeNew == served < MaxStaleRequests /\ CreateDirectoryOf({"/d/g"})
WatchOld == served < MaxStaleRequests /\ WatchFile

NextStale ==
    \/ FetchStale \/ Tick
    \/ WriteNew \/ CopyNew \/ MoveNew \/ DeleteOld \/ MakeNew \/ WatchOld

SpecStale == Init /\ [][NextStale]_vars

\* the entry of the key is within its TTL
Live(k) == k \in DOMAIN cache /\ now - cache[k].timestamp <= cache[k].ttl

\* C30: no tool call reads, writes or invalidates the cache.  Every tool call
\* leaves the cache as it was, whatever it does to the tree, so a fetch within
\* the TTL of an entry is answered with the payload stored earlier and
\* cached = true, also when the file or directory was modified, created or
\* deleted in between, and also when the payload stored is the failure of a
\* path that did not exist at the first fetch.
C30_ToolsLeaveCache ==
    [][/\ CallsTool => cache' = cache
       /\ \A u \in StaleUris :
            (/\ served' = served + 1
             /\ request'.method = "resources/read" /\ request'.args = u
             /\ Live(KeyOf(u)))
                => /\ result'.data = [cache[KeyOf(u)].data EXCEPT !.cached = TRUE]
                   /\ oscalls' = <<>>]_vars

\* the metadata of /d/g was fetched while /d/g did not exist, a tool call
\* created /d/g, and a fetch within the TTL is answered with the stored
\* failure and cached = true
C30_Witness ==
    /\ request.method = "resources/read"
    /\ request.args = [kind |-> "metadata", arg |-> "/d/g"]
    /\ result.data.cached
    /\ ~result.data.body.success /\ result.data.body.error = "ENOENT"
    /\ IsFile(fs, "/d/g")

====
